---- MODULE Spec2Model ----
(***************************************************************************)
(* Model of the resume analysis pipeline of                                *)
(* infrastructure/lambda/s3-processor/index.py: text extraction, the       *)
(* Bedrock analysis with its normalisation and fallback, and the tiered    *)
(* writes of process_resume_file to DynamoDB and S3.                       *)
(*                                                                         *)
(* Python strings are sequences of one-character strings, so that length,  *)
(* slicing, lower-casing and substring search are computed as the code     *)
(* computes them.  Python values of unknown type (what json.loads returns) *)
(* are tagged records, see PyVal below.                                    *)
(***************************************************************************)
EXTENDS Integers, Sequences, FiniteSets, TLC

VARIABLES
    scenario,       \* the uploaded object and the libraries of this deployment
    pc,             \* pc[r]: position of invocation r in handler/process_resume_file
    filename,       \* filename[r]                                    (line 94)
    rawText,        \* rawText[r]: raw_text                           (108-114)
    analysis,       \* analysis[r]: analyze_with_bedrock's result     (154)
    result,         \* result[r]: what process_resume_file returned
    response,       \* response[r]: what handler returned
    trace,          \* trace[r]: what happened in invocation r (history only)
    attachments,    \* DynamoDB ATTACHMENTS_TABLE: id -> item
    parsedResumes,  \* DynamoDB PARSED_RESUMES_TABLE: id -> item
    resumeInfo,     \* DynamoDB RESUME_INFORMATION_TABLE: id -> item
    blob,           \* S3 bucket S3_BUCKET: key -> body
    notifications,  \* asynchronous invocations of the email notifier
    exIn, exOut,    \* one call of extract_text_from_file and its outcome
    anIn, anOut,    \* one call of analyze_with_bedrock and its outcome
    prIn, prOut,    \* one Analysis and the two records lines 160-205 make of it
    nmIn, nmOut,    \* one call of extract_name_from_filename and its outcome
    monitor         \* the bucket's keys and the triggers of triggerS3Monitor

vars == <<scenario, pc, filename, rawText, analysis, result, response, trace,
          attachments, parsedResumes, resumeInfo, blob, notifications,
          exIn, exOut, anIn, anOut, prIn, prOut, nmIn, nmOut, monitor>>

pipelineVars == <<scenario, pc, filename, rawText, analysis, result, response,
                  trace, attachments, parsedResumes, resumeInfo, blob,
                  notifications>>

(***************************************************************************)
(* Python strings                                                          *)
(***************************************************************************)
UpperAlpha == <<"A","B","C","D","E","F","G","H","I","J","K","L","M","N","O","P","Q","R","S","T","U","V","W","X","Y","Z">>
LowerAlpha == <<"a","b","c","d","e","f","g","h","i","j","k","l","m","n","o","p","q","r","s","t","u","v","w","x","y","z">>
DigitChars == <<"0","1","2","3","4","5","6","7","8","9">>
Whitespace == {" ", "\n", "\t"}

InSeq(c, s) == \E i \in 1..Len(s) : s[i] = c
IndexOf(c, s) == CHOOSE i \in 1..Len(s) : s[i] = c

Min(a, b) == IF a <= b THEN a ELSE b
Max(a, b) == IF a >= b THEN a ELSE b

\* str.lower() and str.upper() of one character, on the letters the model uses
LowerOf == [c \in {UpperAlpha[k] : k \in 1..26} |-> LowerAlpha[IndexOf(c, UpperAlpha)]]
UpperOf == [c \in {LowerAlpha[k] : k \in 1..26} |-> UpperAlpha[IndexOf(c, LowerAlpha)]]
lower_char(c) == IF c \in DOMAIN LowerOf THEN LowerOf[c] ELSE c
upper_char(c) == IF c \in DOMAIN UpperOf THEN UpperOf[c] ELSE c
IsAlpha(c) == c \in DOMAIN LowerOf \/ c \in DOMAIN UpperOf
str_lower(s) == [i \in 1..Len(s) |-> lower_char(s[i])]

\* s[:n]
Slice(s, n) == SubSeq(s, 1, Min(n, Len(s)))

\* sub in s
MatchesAt(s, sub, i) == \A j \in 1..Len(sub) : s[i + j] = sub[j]
Contains(s, sub) == \E i \in 0..(Len(s) - Len(sub)) : MatchesAt(s, sub, i)

\* s.startswith(p), s.endswith(p)
StartsWith(s, p) == Len(p) <= Len(s) /\ MatchesAt(s, p, 0)
EndsWith(s, p) == Len(p) <= Len(s) /\ MatchesAt(s, p, Len(s) - Len(p))

\* s.strip()
Strip(s) ==
    LET keep == {i \in 1..Len(s) : s[i] \notin Whitespace}
    IN  IF keep = {} THEN <<>>
        ELSE SubSeq(s, CHOOSE i \in keep : \A k \in keep : i <= k,
                       CHOOSE i \in keep : \A k \in keep : i >= k)

\* s.replace(old, new), old not empty
RECURSIVE Replace(_, _, _)
Replace(s, old, new) ==
    IF Len(s) < Len(old) THEN s
    ELSE IF MatchesAt(s, old, 0)
         THEN new \o Replace(SubSeq(s, Len(old) + 1, Len(s)), old, new)
         ELSE <<s[1]>> \o Replace(Tail(s), old, new)

\* s.split(sep)[-1] for a one-character separator
LastComponent(s, sep) ==
    LET at == {i \in 1..Len(s) : s[i] = sep}
    IN  IF at = {} THEN s
        ELSE SubSeq(s, (CHOOSE i \in at : \A k \in at : i >= k) + 1, Len(s))

\* len(s.split()): the number of whitespace-separated tokens
TokenCount(s) ==
    Cardinality({i \in 1..Len(s) :
                    /\ s[i] \notin Whitespace
                    /\ (i = 1 \/ s[i - 1] \in Whitespace)})

(***************************************************************************)
(* Python values whose type the code does not control: a tagged record.    *)
(*   t = "null" | "bool" | "int" | "float" | "str" | "list" | "dict"       *)
(*   i: the value of an int or bool (1, 0), a float in hundredths, or the  *)
(*      number of keys of a dict;  s: the characters of a str;             *)
(*   l: the elements of a list.                                            *)
(***************************************************************************)
PNone == [t |-> "null", i |-> 0, s |-> <<>>, l |-> <<>>]
PBool(b) == [t |-> "bool", i |-> IF b THEN 1 ELSE 0, s |-> <<>>, l |-> <<>>]
PInt(n) == [t |-> "int", i |-> n, s |-> <<>>, l |-> <<>>]
PFloat(h) == [t |-> "float", i |-> h, s |-> <<>>, l |-> <<>>]
PStr(str) == [t |-> "str", i |-> 0, s |-> str, l |-> <<>>]
PList(xs) == [t |-> "list", i |-> 0, s |-> <<>>, l |-> xs]
PDict(n) == [t |-> "dict", i |-> n, s |-> <<>>, l |-> <<>>]
\* a list of str
PStrList(strs) == PList([k \in 1..Len(strs) |-> PStr(strs[k])])

\* bool(v)
Truthy(v) ==
    CASE v.t = "null" -> FALSE
      [] v.t \in {"bool", "int", "float", "dict"} -> v.i # 0
      [] v.t = "str" -> v.s # <<>>
      [] v.t = "list" -> v.l # <<>>

\* The outcome of a call: a returned value or a raised exception with str(e).
Ret(v) == [raised |-> FALSE, val |-> v, err |-> <<>>]
Raise(msg) == [raised |-> TRUE, val |-> PNone, err |-> msg]

(***************************************************************************)
(* Text extraction (lines 229-289)                                         *)
(*                                                                         *)
(* A file is [name, content_type, bytes, reader, pages]: bytes are the     *)
(* units of file_content (a character, or BadByte for a byte that is not   *)
(* valid UTF-8); reader and pages are what PyPDF2.PdfReader or             *)
(* docx.Document make of it: reader.raised when opening throws, and one    *)
(* entry per page (paragraph), an extracted text or an exception.          *)
(***************************************************************************)
BadByte == "<invalid byte>"
ReplacementChar == "U+FFFD"

\* file_content.decode('utf-8', errors='replace') (line 239)
decode_replace(bytes) ==
    [i \in 1..Len(bytes) |-> IF bytes[i] = BadByte THEN ReplacementChar ELSE bytes[i]]

PdfUnavailableText == <<"P","y","P","D","F","2"," ","n","o","t"," ","a","v","a","i","l","a","b","l","e"," ","-"," ","c","a","n","n","o","t"," ","e","x","t","r","a","c","t"," ","P","D","F"," ","t","e","x","t">>
DocxUnavailableText == <<"p","y","t","h","o","n","-","d","o","c","x"," ","n","o","t"," ","a","v","a","i","l","a","b","l","e"," ","-"," ","c","a","n","n","o","t"," ","e","x","t","r","a","c","t"," ","D","O","C","X"," ","t","e","x","t">>
PdfErrorPrefix == <<"E","r","r","o","r"," ","e","x","t","r","a","c","t","i","n","g"," ","P","D","F"," ","t","e","x","t",":"," ">>
DocxErrorPrefix == <<"E","r","r","o","r"," ","e","x","t","r","a","c","t","i","n","g"," ","D","O","C","X"," ","t","e","x","t",":"," ">>
ExtractErrorPrefix == <<"E","r","r","o","r"," ","e","x","t","r","a","c","t","i","n","g"," ","t","e","x","t"," ","f","r","o","m"," ">>
UnsupportedPrefix == <<"U","n","s","u","p","p","o","r","t","e","d"," ","f","i","l","e"," ","f","o","r","m","a","t",":"," ">>

\* the loops of lines 258-261 and 280-282: text += part + "\n", until one throws
RECURSIVE ConcatParts(_, _)
ConcatParts(parts, text) ==
    IF parts = <<>> THEN Ret(PStr(text))
    ELSE IF Head(parts).raised THEN Raise(Head(parts).err)
         ELSE ConcatParts(Tail(parts), text \o Head(parts).val.s \o <<"\n">>)

\* the try body of extract_pdf_text and of extract_docx_text after the
\* availability test: open the document, concatenate, strip
ReadDocument(file) ==
    IF file.reader.raised THEN Raise(file.reader.err)
    ELSE LET r == ConcatParts(file.pages, <<>>)
         IN  IF r.raised THEN r ELSE Ret(PStr(Strip(r.val.s)))

\* extract_pdf_text whose except clause only logs: the function returns None
extract_pdf_text_no_return(file, PDF_AVAILABLE) ==
    IF ~PDF_AVAILABLE THEN Ret(PStr(PdfUnavailableText))
    ELSE LET r == ReadDocument(file)
         IN  IF r.raised THEN Ret(PNone) ELSE r

extract_pdf_text(file, PDF_AVAILABLE) ==
    IF ~PDF_AVAILABLE THEN Ret(PStr(PdfUnavailableText))
    ELSE LET r == ReadDocument(file)
         IN  IF r.raised THEN Ret(PStr(PdfErrorPrefix \o r.err)) ELSE r

extract_docx_text(file, DOCX_AVAILABLE) ==
    IF ~DOCX_AVAILABLE THEN Ret(PStr(DocxUnavailableText))
    ELSE LET r == ReadDocument(file)
         IN  IF r.raised THEN Ret(PStr(DocxErrorPrefix \o r.err)) ELSE r

StartsWithTextSlash == <<"t","e","x","t","/">>
ExtPdf == <<".","p","d","f">>
ExtDocx == <<".","d","o","c","x">>
ExtDoc == <<".","d","o","c">>
ExtTxt == <<".","t","x","t">>
NoStartswithError == <<"'","N","o","n","e","T","y","p","e","'"," ","o","b","j","e","c","t"," ","h","a","s"," ","n","o"," ","a","t","t","r","i","b","u","t","e"," ","'","s","t","a","r","t","s","w","i","t","h","'">>

\* the try body of extract_text_from_file (lines 232-242)
ExtractBody(file, libs) ==
    LET file_lower == str_lower(file.name)
    IN  IF EndsWith(file_lower, ExtPdf) THEN extract_pdf_text(file, libs.pdf)
        ELSE IF EndsWith(file_lower, ExtDocx) \/ EndsWith(file_lower, ExtDoc)
        THEN extract_docx_text(file, libs.docx)
        ELSE IF EndsWith(file_lower, ExtTxt) THEN Ret(PStr(decode_replace(file.bytes)))
        ELSE IF file.content_type.t # "str" THEN Raise(NoStartswithError)
        ELSE IF StartsWith(file.content_type.s, StartsWithTextSlash)
        THEN Ret(PStr(decode_replace(file.bytes)))
        ELSE Ret(PStr(UnsupportedPrefix \o file.name))

extract_text_from_file(file, libs) ==
    LET r == ExtractBody(file, libs)
    IN  IF r.raised
        THEN Ret(PStr(ExtractErrorPrefix \o file.name \o <<":"," ">> \o r.err))
        ELSE r

(***************************************************************************)
(* extract_name_from_filename (lines 416-428)                              *)
(***************************************************************************)
UnknownCandidate == <<"U","n","k","n","o","w","n"," ","C","a","n","d","i","d","a","t","e">>

\* re.sub(r'\d+', '', s)
RemoveDigits(s) == SelectSeq(s, LAMBDA c : ~InSeq(c, DigitChars))

\* re.sub(r'([a-z])([A-Z])', r'\1 \2', s): a lower-case letter cannot also be
\* the upper-case letter of the match before it, so every such pair is split
RECURSIVE CamelSplit(_)
CamelSplit(s) ==
    IF Len(s) < 2 THEN s
    ELSE IF InSeq(s[1], LowerAlpha) /\ InSeq(s[2], UpperAlpha)
         THEN <<s[1], " ">> \o CamelSplit(Tail(s))
         ELSE <<s[1]>> \o CamelSplit(Tail(s))

\* str.title(): a letter after a letter is lower-cased, any other letter upper-cased
Title(s) ==
    [i \in 1..Len(s) |->
        IF ~IsAlpha(s[i]) THEN s[i]
        ELSE IF i > 1 /\ IsAlpha(s[i - 1]) THEN lower_char(s[i])
        ELSE upper_char(s[i])]

\* the resolver without the test of line 428: whatever is left is the name
extract_name_from_filename_any_tokens(name) ==
    IF name = <<>> THEN UnknownCandidate
    ELSE LET a == Replace(Replace(Replace(Replace(name, ExtPdf, <<>>), ExtDocx, <<>>),
                                  ExtDoc, <<>>), ExtTxt, <<>>)
             b == Replace(Replace(Replace(Replace(a, <<"R","e","s","u","m","e","_">>, <<>>), <<"C","V","_">>, <<>>),
                                  <<"r","e","s","u","m","e","-">>, <<>>), <<"c","v","-">>, <<>>)
             c == Replace(Replace(b, <<"_">>, <<" ">>), <<"-">>, <<" ">>)
         IN  Title(Strip(CamelSplit(RemoveDigits(c))))

extract_name_from_filename(name) ==
    IF name = <<>> THEN UnknownCandidate
    ELSE LET a == Replace(Replace(Replace(Replace(name, ExtPdf, <<>>), ExtDocx, <<>>),
                                  ExtDoc, <<>>), ExtTxt, <<>>)
             b == Replace(Replace(Replace(Replace(a, <<"R","e","s","u","m","e","_">>, <<>>), <<"C","V","_">>, <<>>),
                                  <<"r","e","s","u","m","e","-">>, <<>>), <<"c","v","-">>, <<>>)
             c == Replace(Replace(b, <<"_">>, <<" ">>), <<"-">>, <<" ">>)
             d == CamelSplit(RemoveDigits(c))
             clean_name == Title(Strip(d))
         IN  IF TokenCount(clean_name) >= 2 THEN clean_name ELSE UnknownCandidate

(***************************************************************************)
(* extract_skills_from_text (lines 397-414)                                *)
(***************************************************************************)
common_skills == <<
    <<"P","y","t","h","o","n">>, <<"J","a","v","a">>, <<"J","a","v","a","S","c","r","i","p","t">>, <<"T","y","p","e","S","c","r","i","p","t">>, <<"R","e","a","c","t">>, <<"A","n","g","u","l","a","r">>, <<"V","u","e">>,
    <<"N","o","d","e",".","j","s">>, <<"E","x","p","r","e","s","s">>, <<"D","j","a","n","g","o">>, <<"F","l","a","s","k">>, <<"S","p","r","i","n","g">>, <<"H","T","M","L">>, <<"C","S","S">>,
    <<"S","Q","L">>, <<"M","y","S","Q","L">>, <<"P","o","s","t","g","r","e","S","Q","L">>, <<"M","o","n","g","o","D","B">>, <<"R","e","d","i","s">>, <<"A","W","S">>, <<"A","z","u","r","e">>, <<"G","C","P">>,
    <<"D","o","c","k","e","r">>, <<"K","u","b","e","r","n","e","t","e","s">>, <<"G","i","t">>, <<"J","e","n","k","i","n","s">>, <<"C","I","/","C","D">>, <<"L","i","n","u","x">>, <<"W","i","n","d","o","w","s">>,
    <<"M","a","c","h","i","n","e"," ","L","e","a","r","n","i","n","g">>, <<"A","I">>, <<"T","e","n","s","o","r","F","l","o","w">>, <<"P","y","T","o","r","c","h">>, <<"P","a","n","d","a","s">>, <<"N","u","m","P","y">> >>

SkillLimit == 15

\* skill.lower() of every skill of the list
common_skills_lower == [k \in 1..Len(common_skills) |-> str_lower(common_skills[k])]

extract_skills_from_text(text) ==
    LET text_lower == str_lower(text)
        found == {k \in 1..Len(common_skills) : Contains(text_lower, common_skills_lower[k])}
        found_skills == SelectSeq(common_skills,
                                  LAMBDA skill : \E k \in found : common_skills[k] = skill)
    IN  Slice(found_skills, SkillLimit)

(***************************************************************************)
(* categorize_skills (lines 430-446)                                       *)
(***************************************************************************)
CategoryNames == {"Programming", "Frontend", "Backend", "Database", "Cloud", "DevOps"}

categories ==
    [Programming |-> {<<"p","y","t","h","o","n">>, <<"j","a","v","a">>, <<"j","a","v","a","s","c","r","i","p","t">>, <<"t","y","p","e","s","c","r","i","p","t">>, <<"c","+","+">>, <<"c","#">>},
     Frontend |-> {<<"r","e","a","c","t">>, <<"a","n","g","u","l","a","r">>, <<"v","u","e">>, <<"h","t","m","l">>, <<"c","s","s">>, <<"b","o","o","t","s","t","r","a","p">>},
     Backend |-> {<<"n","o","d","e",".","j","s">>, <<"e","x","p","r","e","s","s">>, <<"d","j","a","n","g","o">>, <<"f","l","a","s","k">>, <<"s","p","r","i","n","g">>},
     Database |-> {<<"s","q","l">>, <<"m","y","s","q","l">>, <<"p","o","s","t","g","r","e","s","q","l">>, <<"m","o","n","g","o","d","b">>, <<"r","e","d","i","s">>},
     Cloud |-> {<<"a","w","s">>, <<"a","z","u","r","e">>, <<"g","c","p">>, <<"d","o","c","k","e","r">>, <<"k","u","b","e","r","n","e","t","e","s">>},
     DevOps |-> {<<"g","i","t">>, <<"j","e","n","k","i","n","s">>, <<"c","i","/","c","d">>, <<"d","e","v","o","p","s">>, <<"l","i","n","u","x">>}]

\* what "for skill in skills" yields: the elements of a list, the characters of a str
Elements(v) ==
    IF v.t = "str" THEN [k \in 1..Len(v.s) |-> PStr(<<v.s[k]>>)] ELSE v.l

AttributeErrorLower == <<"o","b","j","e","c","t"," ","h","a","s"," ","n","o"," ","a","t","t","r","i","b","u","t","e"," ","'","l","o","w","e","r","'">>

\* categorize_skills on a str or a list: skill.lower() raises on an element
\* that is not a str
categorize_skills(skills) ==
    LET elems == Elements(skills)
    IN  IF \E k \in 1..Len(elems) : elems[k].t # "str" THEN Raise(AttributeErrorLower)
        ELSE Ret([category \in DOMAIN categories |->
                    Cardinality({k \in 1..Len(elems) :
                        str_lower(elems[k].s) \in
                            {str_lower(kw) : kw \in categories[category]}})])

(***************************************************************************)
(* process_real_analysis_data (lines 356-395)                              *)
(*                                                                         *)
(* data is the dict json.loads returned: a function from its keys to       *)
(* Python values.                                                          *)
(***************************************************************************)
\* data.get(key, default)
Get(data, key, default) == IF key \in DOMAIN data THEN data[key] ELSE default

RECURSIVE DigitsValue(_)
DigitsValue(ds) ==
    IF ds = <<>> THEN 0
    ELSE 10 * DigitsValue(SubSeq(ds, 1, Len(ds) - 1)) + (IndexOf(ds[Len(ds)], DigitChars) - 1)

\* int(s) for a str: surrounding whitespace, an optional sign, decimal digits;
\* anything else raises ValueError
IntOfStr(str) ==
    LET b == Strip(str)
        signed == b # <<>> /\ b[1] \in {"+", "-"}
        ds == IF signed THEN Tail(b) ELSE b
    IN  IF ds = <<>> \/ \E k \in 1..Len(ds) : ~InSeq(ds[k], DigitChars)
        THEN Raise(<<"i","n","v","a","l","i","d"," ","l","i","t","e","r","a","l"," ","f","o","r"," ","i","n","t","(",")"," ","w","i","t","h"," ","b","a","s","e"," ","1","0">>)
        ELSE Ret(PInt(IF signed /\ b[1] = "-" THEN 0 - DigitsValue(ds) ELSE DigitsValue(ds)))

NotANumberWords == {<<"n","/","a">>, <<"n","a">>, <<"u","n","k","n","o","w","n">>, <<>>}

\* safe_int (lines 364-374): an int (or bool) as it is, a str through int(),
\* the default for the rest
safe_int(value, default) ==
    IF value.t \in {"int", "bool"} THEN value
    ELSE IF value.t = "str"
    THEN IF str_lower(value.s) \in NotANumberWords THEN PInt(default)
         ELSE LET r == IntOfStr(value.s)
              IN  IF r.raised THEN PInt(default) ELSE r.val
    ELSE PInt(default)

MinScore == 1
MaxScore == 100
DefaultOverallScore == 50
DefaultSkillDiversity == 30
DefaultExperienceYears == 1
KeySkillsInAnalysis == 10
ConfidenceAI == 85          \* 0.85, in hundredths
ConfidenceFallback == 30    \* 0.3, in hundredths

\* min(100, max(1, v)) for an int or bool v
Clamp(v) == Min(MaxScore, Max(MinScore, v.i))

\* v[:n] for a str or a list
PySlice(v, n) ==
    IF v.t = "str" THEN PStr(Slice(v.s, n)) ELSE PList(Slice(v.l, n))

\* len(v) for a str, a list or a dict
PyLen(v) ==
    CASE v.t = "str" -> Len(v.s)
      [] v.t = "list" -> Len(v.l)
      [] v.t = "dict" -> v.i

LenTypeError == <<"o","b","j","e","c","t"," ","h","a","s"," ","n","o"," ","l","e","n","(",")">>
SliceTypeError == <<"o","b","j","e","c","t"," ","i","s"," ","n","o","t"," ","s","u","b","s","c","r","i","p","t","a","b","l","e">>

ProfessionalAnalysisFor == <<"P","r","o","f","e","s","s","i","o","n","a","l"," ","a","n","a","l","y","s","i","s"," ","f","o","r"," ">>
DefaultStrengths == PStrList(<< <<"P","r","o","f","e","s","s","i","o","n","a","l"," ","B","a","c","k","g","r","o","u","n","d">> >>)
DefaultRecommendations == PStrList(<< <<"C","o","n","t","i","n","u","e"," ","p","r","o","f","e","s","s","i","o","n","a","l"," ","d","e","v","e","l","o","p","m","e","n","t">> >>)

process_real_analysis_data(data, fallback_name, resume_text) ==
    LET given == Get(data, "skills", PList(<<>>))
        skills == IF ~Truthy(given) THEN PStrList(extract_skills_from_text(resume_text))
                  ELSE given
        breakdown == categorize_skills(skills)
        summary == Get(data, "detailed_summary",
                       PStr(ProfessionalAnalysisFor \o fallback_name))
    IN  IF skills.t \notin {"str", "list", "dict"} THEN Raise(LenTypeError)
        ELSE IF skills.t = "dict" THEN Raise(SliceTypeError)
        ELSE IF breakdown.raised THEN breakdown
        ELSE Ret([
            candidate_name |-> Get(data, "candidate_name", PStr(fallback_name)),
            experience_years |-> safe_int(Get(data, "experience_years", PNone),
                                          DefaultExperienceYears),
            experience_level |-> Get(data, "experience_level", PStr(<<"J","u","n","i","o","r">>)),
            skills |-> skills,
            total_skills |-> PyLen(skills),
            overall_score |-> Clamp(safe_int(Get(data, "overall_score", PNone),
                                             DefaultOverallScore)),
            skill_diversity |-> Clamp(safe_int(Get(data, "skill_diversity", PNone),
                                               DefaultSkillDiversity)),
            fit_assessment |-> Get(data, "fit_assessment", PStr(<<"M","e","d","i","u","m">>)),
            key_skills |-> PySlice(skills, KeySkillsInAnalysis),
            skill_breakdown |-> breakdown.val,
            strengths |-> Get(data, "strengths", DefaultStrengths),
            recommendations |-> Get(data, "recommendations", DefaultRecommendations),
            detailed_summary |-> summary,
            summary |-> summary,
            key_achievements |-> Get(data, "key_achievements", PList(<<>>)),
            education |-> Get(data, "education", PList(<<>>)),
            certifications |-> Get(data, "certifications", PList(<<>>)),
            extraction_confidence |-> ConfidenceAI])

(***************************************************************************)
(* get_fallback_analysis (lines 448-471)                                   *)
(***************************************************************************)
FallbackOverallScore == 45
FallbackSkillDiversity == 25
GeneralSkills == << <<"G","e","n","e","r","a","l"," ","S","k","i","l","l","s">> >>
FallbackAnalysisFor == <<"F","a","l","l","b","a","c","k"," ","a","n","a","l","y","s","i","s"," ","f","o","r"," ">>

get_fallback_analysis(candidate_name, resume_text) ==
    LET skills == extract_skills_from_text(resume_text)
    IN  [candidate_name |-> PStr(candidate_name),
         experience_years |-> PInt(1),
         experience_level |-> PStr(<<"J","u","n","i","o","r">>),
         skills |-> IF skills # <<>> THEN PStrList(skills) ELSE PStrList(GeneralSkills),
         total_skills |-> IF skills # <<>> THEN Len(skills) ELSE 1,
         overall_score |-> FallbackOverallScore,
         skill_diversity |-> FallbackSkillDiversity,
         fit_assessment |-> PStr(<<"M","e","d","i","u","m">>),
         key_skills |-> IF skills # <<>>
                        THEN PStrList(Slice(skills, KeySkillsInAnalysis))
                        ELSE PStrList(GeneralSkills),
         skill_breakdown |-> IF skills # <<>>
                             THEN categorize_skills(PStrList(skills)).val
                             ELSE [category \in {"General"} |-> 1],
         strengths |-> DefaultStrengths,
         recommendations |-> DefaultRecommendations,
         detailed_summary |-> PStr(FallbackAnalysisFor \o candidate_name
                                   \o <<" ","-"," ","A","I"," ","a","n","a","l","y","s","i","s"," ","u","n","a","v","a","i","l","a","b","l","e">>),
         summary |-> PStr(FallbackAnalysisFor \o candidate_name),
         key_achievements |-> PList(<<>>),
         education |-> PList(<<>>),
         certifications |-> PList(<<>>),
         extraction_confidence |-> ConfidenceFallback]

(***************************************************************************)
(* analyze_with_bedrock (lines 291-354)                                    *)
(*                                                                         *)
(* reply is what bedrock_client.converse and the parse of its text come    *)
(* to: kind "throws" (the call or the access to the reply raises),         *)
(* "no_json" (re.search finds no {...}), "malformed" (json.loads raises    *)
(* JSONDecodeError) or "object" with the decoded dict in data.             *)
(***************************************************************************)
\* analyze_with_bedrock that reports an object it had to discard as AI-backed
analyze_with_bedrock_keeping_confidence(reply, resume_text, name) ==
    LET candidate_name == extract_name_from_filename(name)
        fallback == get_fallback_analysis(candidate_name, resume_text)
    IN  IF reply.kind # "object" THEN fallback
        ELSE LET r == process_real_analysis_data(reply.data, candidate_name, resume_text)
             IN  IF r.raised THEN [fallback EXCEPT !.extraction_confidence = ConfidenceAI]
                 ELSE r.val

analyze_with_bedrock(reply, resume_text, name) ==
    LET candidate_name == extract_name_from_filename(name)
        fallback == get_fallback_analysis(candidate_name, resume_text)
    IN  IF reply.kind # "object" THEN fallback
        ELSE LET r == process_real_analysis_data(reply.data, candidate_name, resume_text)
             IN  IF r.raised THEN fallback ELSE r.val

(***************************************************************************)
(* The uploaded objects, the deployments and the replies of the inference  *)
(* service that the pipeline is run on.                                    *)
(***************************************************************************)
MaxRuns == 1
Runs == 1..MaxRuns

TextPlain == PStr(<<"t","e","x","t","/","p","l","a","i","n">>)
OctetStream == PStr(<<"a","p","p","l","i","c","a","t","i","o","n","/","o","c","t","e","t","-","s","t","r","e","a","m">>)
NoReader == Ret(PNone)

\* the text of the end-to-end scenario: 41 characters
ShortResumeText == <<"5"," ","y","e","a","r","s"," ","o","f"," ","e","x","p","e","r","i","e","n","c","e"," ","w","i","t","h"," ","P","y","t","h","o","n"," ","a","n","d"," ","A","W","S">>
LongResumeText == <<"J","a","n","e"," ","D","o","e"," ","-"," ","5"," ","y","e","a","r","s"," ","o","f"," ","e","x","p","e","r","i","e","n","c","e"," ","w","i","t","h"," ","P","y","t","h","o","n"," ","a","n","d"," ","A","W","S",","," ","D","o","c","k","e","r"," ","a","n","d"," ","S","Q","L">>
PdfPage1 == <<"J","o","h","n"," ","S","m","i","t","h">>
PdfPage2 == <<"S","o","f","t","w","a","r","e"," ","e","n","g","i","n","e","e","r","."," ","J","a","v","a",","," ","S","p","r","i","n","g"," ","a","n","d"," ","M","y","S","Q","L"," ","s","i","n","c","e"," ","2","0","1","5",".">>
EofMarkerError == <<"E","O","F"," ","m","a","r","k","e","r"," ","n","o","t"," ","f","o","u","n","d">>
PageError == <<"U","n","e","x","p","e","c","t","e","d"," ","e","n","d"," ","o","f"," ","s","t","r","e","a","m"," ","w","h","i","l","e"," ","r","e","a","d","i","n","g"," ","p","a","g","e">>
NotAZipError == <<"F","i","l","e"," ","i","s"," ","n","o","t"," ","a"," ","z","i","p"," ","f","i","l","e">>

\* a text that names 13 terms of the vocabulary
ManySkillsText == <<"S","t","a","c","k",":"," ","P","y","t","h","o","n",","," ","T","y","p","e","S","c","r","i","p","t",","," ","R","e","a","c","t",","," ","A","n","g","u","l","a","r",","," ","V","u","e",","," ","D","j","a","n","g","o",","," ","F","l","a","s","k",","," ","S","p","r","i","n","g",","," ","H","T","M","L",","," ","C","S","S",","," ","M","y","S","Q","L",","," ","R","e","d","i","s">>

TxtObject(bytes) ==
    [content_type |-> TextPlain, bytes |-> bytes, reader |-> NoReader, pages |-> <<>>]
DocObject(reader, pages) ==
    [content_type |-> OctetStream, bytes |-> <<"%", BadByte>>, reader |-> reader,
     pages |-> pages]

AllLibs == [pdf |-> TRUE, docx |-> TRUE]
NoLibs == [pdf |-> FALSE, docx |-> FALSE]

Scenarios ==
    { [key |-> <<"r","e","s","u","m","e",".","t","x","t">>, object |-> TxtObject(ShortResumeText), libs |-> AllLibs],
      [key |-> <<"m","s","g","-","1","/","J","a","n","e","D","o","e",".","t","x","t">>, object |-> TxtObject(LongResumeText), libs |-> AllLibs],
      [key |-> <<"m","s","g","-","4","/","s","t","a","c","k",".","t","x","t">>, object |-> TxtObject(ManySkillsText), libs |-> AllLibs],
      [key |-> <<"J","o","h","n","_","S","m","i","t","h","_","R","e","s","u","m","e","_","2","0","2","3",".","p","d","f">>,
       object |-> DocObject(Ret(PNone), <<Ret(PStr(PdfPage1)), Ret(PStr(PdfPage2))>>),
       libs |-> AllLibs],
      [key |-> <<"m","s","g","-","2","/","s","c","a","n",".","P","D","F">>,
       object |-> DocObject(Ret(PNone), <<Ret(PStr(<<>>))>>), libs |-> AllLibs],
      [key |-> <<"b","r","o","k","e","n","_","p","a","g","e",".","p","d","f">>,
       object |-> DocObject(Ret(PNone), <<Ret(PStr(PdfPage1)), Raise(PageError)>>),
       libs |-> AllLibs],
      [key |-> <<"t","r","u","n","c","a","t","e","d",".","p","d","f">>,
       object |-> DocObject(Raise(EofMarkerError), <<>>), libs |-> AllLibs],
      [key |-> <<"J","o","h","n","_","S","m","i","t","h","_","R","e","s","u","m","e","_","2","0","2","3",".","p","d","f">>,
       object |-> DocObject(Ret(PNone), <<Ret(PStr(PdfPage1)), Ret(PStr(PdfPage2))>>),
       libs |-> NoLibs],
      [key |-> <<"c","v","-","A","n","n","L","e","e",".","d","o","c","x">>,
       object |-> DocObject(Ret(PNone), <<Ret(PStr(PdfPage2))>>), libs |-> NoLibs],
      [key |-> <<"o","l","d",".","d","o","c">>,
       object |-> DocObject(Raise(NotAZipError), <<>>), libs |-> AllLibs],
      [key |-> <<"a","r","c","h","i","v","e","/","r","e","s","u","m","e",".","p","d","f",".","z","i","p">>,
       object |-> [content_type |-> OctetStream, bytes |-> <<BadByte>>,
                   reader |-> NoReader, pages |-> <<>>],
       libs |-> AllLibs],
      [key |-> <<"m","s","g","-","3","/","p","h","o","t","o",".","p","n","g">>,
       object |-> [content_type |-> PStr(<<"i","m","a","g","e","/","p","n","g">>), bytes |-> <<BadByte>>,
                   reader |-> NoReader, pages |-> <<>>],
       libs |-> AllLibs] }

\* the threshold of line 112 and the caps of lines 123, 184 and 196-198
MinTextLength == 50
PreviewLength == 500
SummaryCap == 1000
TopSkills == 10
TopStrengths == 5
TopRecommendations == 3

NoData == [k \in {} |-> PNone]

GoodData ==
    [candidate_name |-> PStr(<<"J","o","h","n"," ","S","m","i","t","h">>),
     experience_years |-> PInt(8),
     experience_level |-> PStr(<<"S","e","n","i","o","r">>),
     skills |-> PStrList(<< <<"J","a","v","a">>, <<"S","P","R","I","N","G">>, <<"L","e","a","d","e","r","s","h","i","p">> >>),
     overall_score |-> PInt(82),
     skill_diversity |-> PStr(<<"6","0">>),
     fit_assessment |-> PStr(<<"H","i","g","h">>),
     strengths |-> PStrList(<< <<"B","a","c","k","e","n","d"," ","d","e","s","i","g","n">> >>),
     recommendations |-> PStrList(<< <<"A","d","d"," ","c","l","o","u","d"," ","c","e","r","t","i","f","i","c","a","t","i","o","n","s">> >>),
     detailed_summary |-> PStr(<<"E","x","p","e","r","i","e","n","c","e","d"," ","J","a","v","a"," ","e","n","g","i","n","e","e","r">>),
     key_achievements |-> PList(<<>>),
     education |-> PStrList(<< <<"B","S","c"," ","C","o","m","p","u","t","e","r"," ","S","c","i","e","n","c","e">> >>),
     certifications |-> PList(<<>>)]

\* the reply of the spec's second end-to-end scenario
ScoreOnlyData == [overall_score |-> PInt(150), skills |-> PList(<<>>)]
\* a reply whose summary is null
NullSummaryData == [candidate_name |-> PStr(<<"J","o","h","n"," ","S","m","i","t","h">>), detailed_summary |-> PNone]

\* a reply whose skills are a number: len(skills) raises TypeError
RejectedData == [overall_score |-> PInt(101), skills |-> PInt(7)]
\* a reply with more skills, strengths and recommendations than the caps and
\* a summary one character longer than the cap
LongSummary == [k \in 1..(SummaryCap + 1) |-> IF k = SummaryCap + 1 THEN "!" ELSE "x"]
LongData ==
    [candidate_name |-> PStr(<<"A","n","n"," ","L","e","e">>),
     skills |-> PStrList(<< <<"G","o">>, <<"R","u","s","t">>, <<"C">>, <<"P","e","r","l">>, <<"R","u","b","y">>, <<"P","H","P">>, <<"S","c","a","l","a">>,
                            <<"S","w","i","f","t">>, <<"K","o","t","l","i","n">>, <<"R">>, <<"L","u","a">>, <<"D","a","r","t">> >>),
     strengths |-> PStrList(<< <<"s","1">>, <<"s","2">>, <<"s","3">>, <<"s","4">>, <<"s","5">>, <<"s","6">> >>),
     recommendations |-> PStrList(<< <<"r","1">>, <<"r","2">>, <<"r","3">>, <<"r","4">> >>),
     detailed_summary |-> PStr(LongSummary)]

PipelineReplies ==
    { [kind |-> "throws", data |-> NoData],
      [kind |-> "no_json", data |-> NoData],
      [kind |-> "malformed", data |-> NoData],
      [kind |-> "object", data |-> GoodData],
      [kind |-> "object", data |-> ScoreOnlyData],
      [kind |-> "object", data |-> NullSummaryData],
      [kind |-> "object", data |-> RejectedData],
      [kind |-> "object", data |-> LongData] }

(***************************************************************************)
(* process_resume_file (lines 91-227) and handler (lines 71-89)            *)
(*                                                                         *)
(* One invocation r handles one S3 record.  Every call to S3, DynamoDB,    *)
(* Bedrock or Lambda is one step; a call to a store either succeeds or     *)
(* raises.  uuid.uuid4() gives invocation r its k-th identifier <<r, k>>.  *)
(***************************************************************************)
uuid4(r, k) == <<r, k>>
attachment_id(r) == uuid4(r, 1)
\* one parsed-resume id for every invocation
parsed_resume_id_shared(r) == uuid4(1, 2)
parsed_resume_id(r) == uuid4(r, 2)
raw_text_s3_key(r) == [prefix |-> "parsed-resumes/", id |-> parsed_resume_id(r), ext |-> ".txt"]
\* a key made of the file name, not of a new uuid
detailed_analysis_s3_key_by_name(r) == [prefix |-> "analysis/", id |-> filename[r], ext |-> ".json"]
detailed_analysis_s3_key(r) == [prefix |-> "analysis/", id |-> uuid4(r, 3), ext |-> ".json"]
resume_info_id(r) == uuid4(r, 4)

NoAnalysis == [none |-> TRUE]
NoResult == [status |-> "none"]
NoTrace == [reply |-> "none", data |-> NoData, rejected |-> FALSE, failed_at |-> "none",
            cause |-> "none", notify |-> "none"]

\* the test of line 97 on the extension occurring anywhere in the name
IsResumeFileByContainment(name) ==
    LET l == str_lower(name)
    IN  Contains(l, ExtPdf) \/ Contains(l, ExtDocx) \/ Contains(l, ExtDoc) \/ Contains(l, ExtTxt)

\* line 97
IsResumeFile(name) ==
    LET l == str_lower(name)
    IN  EndsWith(l, ExtPdf) \/ EndsWith(l, ExtDocx) \/ EndsWith(l, ExtDoc) \/ EndsWith(l, ExtTxt)

UnableToExtract(name) ==
    <<"U","n","a","b","l","e"," ","t","o"," ","e","x","t","r","a","c","t"," ","m","e","a","n","i","n","g","f","u","l"," ","t","e","x","t"," ","f","r","o","m"," ">> \o name
        \o <<"."," ","F","i","l","e"," ","m","a","y"," ","b","e"," ","c","o","r","r","u","p","t","e","d"," ","o","r"," ","i","n"," ","u","n","s","u","p","p","o","r","t","e","d"," ","f","o","r","m","a","t",".">>

\* the extracted text handed on whatever its length
RawTextWithoutThreshold(name, object, libs) ==
    LET file == [name |-> name, content_type |-> object.content_type,
                 bytes |-> object.bytes, reader |-> object.reader, pages |-> object.pages]
    IN  extract_text_from_file(file, libs).val.s

\* lines 108-114: the extracted text, or the placeholder when it is too short
RawText(name, object, libs) ==
    LET file == [name |-> name, content_type |-> object.content_type,
                 bytes |-> object.bytes, reader |-> object.reader, pages |-> object.pages]
        raw_text == extract_text_from_file(file, libs).val.s
    IN  IF Len(Strip(raw_text)) < MinTextLength THEN UnableToExtract(name) ELSE raw_text

\* the except clause of lines 225-227: the exception becomes the result
Except(r, cause) ==
    /\ result' = [result EXCEPT ![r] = [status |-> "error"]]
    /\ trace' = [trace EXCEPT ![r].failed_at = pc[r], ![r].cause = cause]
    /\ pc' = [pc EXCEPT ![r] = "return"]

\* lines 94-98
Begin(r) ==
    /\ pc[r] = "start"
    /\ LET name == LastComponent(scenario.key, "/")
       IN  /\ filename' = [filename EXCEPT ![r] = name]
           /\ IF ~IsResumeFile(name)
              THEN /\ result' = [result EXCEPT ![r] =
                                    [status |-> "skipped", reason |-> "not a resume file"]]
                   /\ pc' = [pc EXCEPT ![r] = "return"]
              ELSE /\ pc' = [pc EXCEPT ![r] = "get_object"]
                   /\ UNCHANGED result
    /\ UNCHANGED <<exIn, exOut, anIn, anOut, prIn, prOut, nmIn, nmOut, monitor>>
    /\ UNCHANGED <<scenario, rawText, analysis, response, trace, attachments,
                   parsedResumes, resumeInfo, blob, notifications>>

\* lines 101-114
GetObject(r) ==
    /\ pc[r] = "get_object"
    /\ \/ /\ rawText' = [rawText EXCEPT ![r] =
                            RawText(filename[r], scenario.object, scenario.libs)]
          /\ pc' = [pc EXCEPT ![r] = "put_attachment"]
          /\ UNCHANGED <<result, trace>>
       \/ /\ Except(r, "storage")
          /\ UNCHANGED rawText
    /\ UNCHANGED <<exIn, exOut, anIn, anOut, prIn, prOut, nmIn, nmOut, monitor>>
    /\ UNCHANGED <<scenario, filename, analysis, response, attachments,
                   parsedResumes, resumeInfo, blob, notifications>>

\* lines 117-127
PutAttachment(r) ==
    /\ pc[r] = "put_attachment"
    /\ \/ /\ attachments' = (attachment_id(r) :>
                [id |-> attachment_id(r),
                 filename |-> filename[r],
                 contentType |-> scenario.object.content_type,
                 size |-> Len(scenario.object.bytes),
                 processingStatus |-> "PROCESSING"]) @@ attachments
          /\ pc' = [pc EXCEPT ![r] = "put_raw_text"]
          /\ UNCHANGED <<result, trace>>
       \/ /\ Except(r, "storage")
          /\ UNCHANGED attachments
    /\ UNCHANGED <<exIn, exOut, anIn, anOut, prIn, prOut, nmIn, nmOut, monitor>>
    /\ UNCHANGED <<scenario, filename, rawText, analysis, response,
                   parsedResumes, resumeInfo, blob, notifications>>

\* lines 130-137
PutRawText(r) ==
    /\ pc[r] = "put_raw_text"
    /\ \/ /\ blob' = (raw_text_s3_key(r) :>
                [content_type |-> "text/plain", body |-> rawText[r]]) @@ blob
          /\ pc' = [pc EXCEPT ![r] = "put_parsed_resume"]
          /\ UNCHANGED <<result, trace>>
       \/ /\ Except(r, "storage")
          /\ UNCHANGED blob
    /\ UNCHANGED <<exIn, exOut, anIn, anOut, prIn, prOut, nmIn, nmOut, monitor>>
    /\ UNCHANGED <<scenario, filename, rawText, analysis, response, attachments,
                   parsedResumes, resumeInfo, notifications>>

\* lines 140-150
PutParsedResume(r) ==
    /\ pc[r] = "put_parsed_resume"
    /\ \/ /\ parsedResumes' = (parsed_resume_id(r) :>
                [id |-> parsed_resume_id(r),
                 attachment_id |-> attachment_id(r),
                 raw_text_s3_key |-> raw_text_s3_key(r),
                 text_length |-> Len(rawText[r]),
                 text_preview |-> IF Len(rawText[r]) > PreviewLength
                                  THEN Slice(rawText[r], PreviewLength) \o <<".",".",".">>
                                  ELSE rawText[r],
                 parsing_status |-> "completed"]) @@ parsedResumes
          /\ pc' = [pc EXCEPT ![r] = "converse"]
          /\ UNCHANGED <<result, trace>>
       \/ /\ Except(r, "storage")
          /\ UNCHANGED parsedResumes
    /\ UNCHANGED <<exIn, exOut, anIn, anOut, prIn, prOut, nmIn, nmOut, monitor>>
    /\ UNCHANGED <<scenario, filename, rawText, analysis, response, attachments,
                   resumeInfo, blob, notifications>>

\* the ways the inference service answers: those the scenario names, or any
\* of PipelineReplies
ServiceReplies ==
    IF "replies" \in DOMAIN scenario THEN scenario.replies ELSE PipelineReplies

\* line 154: the inference service answers in any of the ways of ServiceReplies
Converse(r) ==
    /\ pc[r] = "converse"
    /\ \E reply \in ServiceReplies :
          /\ analysis' = [analysis EXCEPT ![r] =
                             analyze_with_bedrock(reply, rawText[r], filename[r])]
          /\ trace' = [trace EXCEPT
                ![r].reply = reply.kind,
                ![r].data = reply.data,
                \* line 352: process_real_analysis_data raised
                ![r].rejected =
                    /\ reply.kind = "object"
                    /\ process_real_analysis_data(reply.data,
                           extract_name_from_filename(filename[r]), rawText[r]).raised]
    /\ pc' = [pc EXCEPT ![r] = "put_detailed_analysis"]
    /\ UNCHANGED <<exIn, exOut, anIn, anOut, prIn, prOut, nmIn, nmOut, monitor>>
    /\ UNCHANGED <<scenario, filename, rawText, result, response, attachments,
                   parsedResumes, resumeInfo, blob, notifications>>

\* lines 160-170
detailed_analysis(a) ==
    [full_summary |-> a.detailed_summary,
     all_skills |-> a.key_skills,
     detailed_achievements |-> a.key_achievements,
     full_education |-> a.education,
     all_certifications |-> a.certifications,
     complete_strengths |-> a.strengths,
     detailed_recommendations |-> a.recommendations,
     skill_breakdown |-> a.skill_breakdown]

\* the put_object of lines 172-177 whose failure is swallowed: the run goes on
PutDetailedAnalysisIgnoringFailure(r) ==
    /\ pc[r] = "put_detailed_analysis"
    /\ \/ blob' = (detailed_analysis_s3_key(r) :>
                [content_type |-> "application/json",
                 body |-> detailed_analysis(analysis[r])]) @@ blob
       \/ UNCHANGED blob
    /\ pc' = [pc EXCEPT ![r] = "put_resume_info"]
    /\ UNCHANGED <<exIn, exOut, anIn, anOut, prIn, prOut, nmIn, nmOut, monitor>>
    /\ UNCHANGED <<scenario, filename, rawText, analysis, result, response, trace,
                   attachments, parsedResumes, resumeInfo, notifications>>

\* lines 160-177
PutDetailedAnalysis(r) ==
    /\ pc[r] = "put_detailed_analysis"
    /\ \/ /\ blob' = (detailed_analysis_s3_key(r) :>
                [content_type |-> "application/json",
                 body |-> detailed_analysis(analysis[r])]) @@ blob
          /\ pc' = [pc EXCEPT ![r] = "put_resume_info"]
          /\ UNCHANGED <<result, trace>>
       \/ /\ Except(r, "storage")
          /\ UNCHANGED blob
    /\ UNCHANGED <<exIn, exOut, anIn, anOut, prIn, prOut, nmIn, nmOut, monitor>>
    /\ UNCHANGED <<scenario, filename, rawText, analysis, response, attachments,
                   parsedResumes, resumeInfo, notifications>>

\* v[:n] is defined for a str and a list only
Sliceable(v) == v.t \in {"str", "list"}

\* the record of lines 180-205 without the slices of lines 184 and 196-198
resume_info_untruncated(r, a) ==
    IF ~Sliceable(a.summary) \/ ~Sliceable(a.strengths) \/ ~Sliceable(a.recommendations)
    THEN Raise(SliceTypeError)
    ELSE Ret([id |-> resume_info_id(r),
              parsed_resume_id |-> parsed_resume_id(r),
              extraction_confidence |-> a.extraction_confidence,
              summary |-> a.summary,
              candidate_name |-> a.candidate_name,
              experience_years |-> a.experience_years,
              experience_level |-> a.experience_level,
              total_skills |-> a.total_skills,
              overall_score |-> a.overall_score,
              skill_diversity |-> a.skill_diversity,
              fit_assessment |-> a.fit_assessment,
              key_skills |-> a.skills,
              top_strengths |-> a.strengths,
              top_recommendations |-> a.recommendations,
              detailed_analysis_s3_key |-> detailed_analysis_s3_key(r),
              raw_text_s3_key |-> raw_text_s3_key(r)])

\* lines 180-205; the slices of lines 184, 197 and 198 raise TypeError on a
\* value that is neither a str nor a list
resume_info(r, a) ==
    IF ~Sliceable(a.summary) \/ ~Sliceable(a.strengths) \/ ~Sliceable(a.recommendations)
    THEN Raise(SliceTypeError)
    ELSE Ret([id |-> resume_info_id(r),
              parsed_resume_id |-> parsed_resume_id(r),
              extraction_confidence |-> a.extraction_confidence,
              summary |-> PySlice(a.summary, SummaryCap),
              candidate_name |-> a.candidate_name,
              experience_years |-> a.experience_years,
              experience_level |-> a.experience_level,
              total_skills |-> a.total_skills,
              overall_score |-> a.overall_score,
              skill_diversity |-> a.skill_diversity,
              fit_assessment |-> a.fit_assessment,
              key_skills |-> PySlice(a.key_skills, TopSkills),
              top_strengths |-> PySlice(a.strengths, TopStrengths),
              top_recommendations |-> PySlice(a.recommendations, TopRecommendations),
              detailed_analysis_s3_key |-> detailed_analysis_s3_key(r),
              raw_text_s3_key |-> raw_text_s3_key(r)])

\* put_item whose failure is dropped: the run goes on to the notification
PutResumeInfoIgnoringFailure(r) ==
    /\ pc[r] = "put_resume_info"
    /\ LET item == resume_info(r, analysis[r])
       IN  IF item.raised
           THEN /\ Except(r, "exception")
                /\ UNCHANGED resumeInfo
           ELSE \/ /\ resumeInfo' = (resume_info_id(r) :> item.val) @@ resumeInfo
                   /\ pc' = [pc EXCEPT ![r] = "invoke_notifier"]
                   /\ UNCHANGED <<result, trace>>
                \/ /\ pc' = [pc EXCEPT ![r] = "invoke_notifier"]
                   /\ UNCHANGED <<resumeInfo, result, trace>>
    /\ UNCHANGED <<exIn, exOut, anIn, anOut, prIn, prOut, nmIn, nmOut, monitor>>
    /\ UNCHANGED <<scenario, filename, rawText, analysis, response, attachments,
                   parsedResumes, blob, notifications>>

\* lines 180-206
PutResumeInfo(r) ==
    /\ pc[r] = "put_resume_info"
    /\ LET item == resume_info(r, analysis[r])
       IN  IF item.raised
           THEN /\ Except(r, "exception")
                /\ UNCHANGED resumeInfo
           ELSE \/ /\ resumeInfo' = (resume_info_id(r) :> item.val) @@ resumeInfo
                   /\ pc' = [pc EXCEPT ![r] = "invoke_notifier"]
                   /\ UNCHANGED <<result, trace>>
                \/ /\ Except(r, "storage")
                   /\ UNCHANGED resumeInfo
    /\ UNCHANGED <<exIn, exOut, anIn, anOut, prIn, prOut, nmIn, nmOut, monitor>>
    /\ UNCHANGED <<scenario, filename, rawText, analysis, response, attachments,
                   parsedResumes, blob, notifications>>

\* the trigger whose exception is not caught: it reaches the except of line 225
trigger_email_notification_raising(r) ==
    /\ pc[r] = "invoke_notifier"
    /\ \/ /\ notifications' = Append(notifications, [resume_info_id |-> resume_info_id(r)])
          /\ trace' = [trace EXCEPT ![r].notify = "sent"]
          /\ pc' = [pc EXCEPT ![r] = "update_status"]
          /\ UNCHANGED result
       \/ /\ result' = [result EXCEPT ![r] = [status |-> "error"]]
          /\ trace' = [trace EXCEPT ![r].notify = "failed", ![r].failed_at = pc[r],
                                    ![r].cause = "notification"]
          /\ pc' = [pc EXCEPT ![r] = "return"]
          /\ UNCHANGED notifications
    /\ UNCHANGED <<exIn, exOut, anIn, anOut, prIn, prOut, nmIn, nmOut, monitor>>
    /\ UNCHANGED <<scenario, filename, rawText, analysis, response,
                   attachments, parsedResumes, resumeInfo, blob>>

\* the trigger that invokes the notifier twice
trigger_email_notification_twice(r) ==
    /\ pc[r] = "invoke_notifier"
    /\ \/ /\ notifications' = notifications \o
                                 <<[resume_info_id |-> resume_info_id(r)],
                                   [resume_info_id |-> resume_info_id(r)]>>
          /\ trace' = [trace EXCEPT ![r].notify = "sent"]
       \/ /\ trace' = [trace EXCEPT ![r].notify = "failed"]
          /\ UNCHANGED notifications
    /\ pc' = [pc EXCEPT ![r] = "update_status"]
    /\ UNCHANGED <<exIn, exOut, anIn, anOut, prIn, prOut, nmIn, nmOut, monitor>>
    /\ UNCHANGED <<scenario, filename, rawText, analysis, result, response,
                   attachments, parsedResumes, resumeInfo, blob>>

\* lines 49-69, called at lines 209-213: lambda_client.invoke succeeds, or
\* raises and the exception is logged and dropped
trigger_email_notification(r) ==
    /\ pc[r] = "invoke_notifier"
    /\ \/ /\ notifications' = Append(notifications, [resume_info_id |-> resume_info_id(r)])
          /\ trace' = [trace EXCEPT ![r].notify = "sent"]
       \/ /\ trace' = [trace EXCEPT ![r].notify = "failed"]
          /\ UNCHANGED notifications
    /\ pc' = [pc EXCEPT ![r] = "update_status"]
    /\ UNCHANGED <<exIn, exOut, anIn, anOut, prIn, prOut, nmIn, nmOut, monitor>>
    /\ UNCHANGED <<scenario, filename, rawText, analysis, result, response,
                   attachments, parsedResumes, resumeInfo, blob>>

\* update_item whose failure takes the attachment record away
UpdateStatusDeletingOnFailure(r) ==
    /\ pc[r] = "update_status"
    /\ \/ /\ attachments' = [attachments EXCEPT
                                ![attachment_id(r)].processingStatus = "COMPLETED"]
          /\ result' = [result EXCEPT ![r] =
                           [status |-> "success", attachment_id |-> attachment_id(r)]]
          /\ pc' = [pc EXCEPT ![r] = "return"]
          /\ UNCHANGED trace
       \/ /\ Except(r, "storage")
          /\ attachments' = [id \in DOMAIN attachments \ {attachment_id(r)} |->
                                attachments[id]]
    /\ UNCHANGED <<exIn, exOut, anIn, anOut, prIn, prOut, nmIn, nmOut, monitor>>
    /\ UNCHANGED <<scenario, filename, rawText, analysis, response,
                   parsedResumes, resumeInfo, blob, notifications>>

\* lines 216-223
UpdateStatus(r) ==
    /\ pc[r] = "update_status"
    /\ \/ /\ attachments' = [attachments EXCEPT
                                ![attachment_id(r)].processingStatus = "COMPLETED"]
          /\ result' = [result EXCEPT ![r] =
                           [status |-> "success", attachment_id |-> attachment_id(r)]]
          /\ pc' = [pc EXCEPT ![r] = "return"]
          /\ UNCHANGED trace
       \/ /\ Except(r, "storage")
          /\ UNCHANGED attachments
    /\ UNCHANGED <<exIn, exOut, anIn, anOut, prIn, prOut, nmIn, nmOut, monitor>>
    /\ UNCHANGED <<scenario, filename, rawText, analysis, response,
                   parsedResumes, resumeInfo, blob, notifications>>

\* lines 82-85: process_resume_file has returned, whatever its result
HandlerReturn(r) ==
    /\ pc[r] = "return"
    /\ response' = [response EXCEPT ![r] = [statusCode |-> 200, body |-> "Processing completed"]]
    /\ pc' = [pc EXCEPT ![r] = "done"]
    /\ UNCHANGED <<exIn, exOut, anIn, anOut, prIn, prOut, nmIn, nmOut, monitor>>
    /\ UNCHANGED <<scenario, filename, rawText, analysis, result, trace, attachments,
                   parsedResumes, resumeInfo, blob, notifications>>

NoCall == [pending |-> TRUE]
Called(out) == "pending" \notin DOMAIN out
\* triggerS3Monitor is not part of the run
NoMonitor == [idle |-> TRUE]

Init ==
    /\ scenario \in Scenarios
    /\ pc = [r \in Runs |-> "start"]
    /\ filename = [r \in Runs |-> <<>>]
    /\ rawText = [r \in Runs |-> <<>>]
    /\ analysis = [r \in Runs |-> NoAnalysis]
    /\ result = [r \in Runs |-> NoResult]
    /\ response = [r \in Runs |-> [statusCode |-> 0, body |-> ""]]
    /\ trace = [r \in Runs |-> NoTrace]
    /\ attachments = <<>>
    /\ parsedResumes = <<>>
    /\ resumeInfo = <<>>
    /\ blob = <<>>
    /\ notifications = <<>>
    /\ exIn = NoCall /\ exOut = NoCall
    /\ anIn = NoCall /\ anOut = NoCall
    /\ prIn = NoCall /\ prOut = NoCall
    /\ nmIn = NoCall /\ nmOut = NoCall /\ monitor = NoMonitor

Next ==
    \/ \E r \in DOMAIN pc : Begin(r)
    \/ \E r \in DOMAIN pc : GetObject(r)
    \/ \E r \in DOMAIN pc : PutAttachment(r)
    \/ \E r \in DOMAIN pc : PutRawText(r)
    \/ \E r \in DOMAIN pc : PutParsedResume(r)
    \/ \E r \in DOMAIN pc : Converse(r)
    \/ \E r \in DOMAIN pc : PutDetailedAnalysis(r)
    \/ \E r \in DOMAIN pc : PutResumeInfo(r)
    \/ \E r \in DOMAIN pc : trigger_email_notification(r)
    \/ \E r \in DOMAIN pc : UpdateStatus(r)
    \/ \E r \in DOMAIN pc : HandlerReturn(r)

Spec == Init /\ [][Next]_vars

(***************************************************************************)
(* extract_text_from_file on its own: one call on any file of              *)
(* ExtractInputs under any availability of the two libraries.              *)
(***************************************************************************)
MaxParts == 2

ExtractNames ==
    { <<"r","e","s","u","m","e",".","p","d","f">>, <<"S","c","a","n",".","P","D","F">>, <<"c","v",".","d","o","c","x">>, <<"o","l","d",".","d","o","c">>, <<"n","o","t","e","s",".","t","x","t">>,
      <<"d","a","t","a",".","c","s","v">>, <<"p","h","o","t","o",".","p","n","g">>, <<"R","E","A","D","M","E">>, <<>> }
ExtractContentTypes == { TextPlain, OctetStream, PStr(<<"a","p","p","l","i","c","a","t","i","o","n","/","p","d","f">>) }
ExtractBytes == { <<>>, ShortResumeText, LongResumeText, <<"a", BadByte, "b">> }
ExtractReaders == { Ret(PNone), Raise(EofMarkerError) }
ExtractParts == { Ret(PStr(PdfPage2)), Ret(PStr(<<>>)), Raise(PageError) }
ExtractPages ==
    UNION { [1..n -> ExtractParts] : n \in 0..MaxParts }
Deployments == [pdf : BOOLEAN, docx : BOOLEAN]

ExtractInputs ==
    [file : [name : ExtractNames, content_type : ExtractContentTypes,
             bytes : ExtractBytes, reader : ExtractReaders, pages : ExtractPages],
     libs : Deployments]

NoPipeline ==
    /\ scenario = [idle |-> TRUE]
    /\ pc = <<>> /\ filename = <<>> /\ rawText = <<>> /\ analysis = <<>>
    /\ result = <<>> /\ response = <<>> /\ trace = <<>>
    /\ attachments = <<>> /\ parsedResumes = <<>> /\ resumeInfo = <<>>
    /\ blob = <<>> /\ notifications = <<>>

InitExtract ==
    /\ NoPipeline
    /\ exIn \in ExtractInputs /\ exOut = NoCall
    /\ anIn = NoCall /\ anOut = NoCall
    /\ prIn = NoCall /\ prOut = NoCall
    /\ nmIn = NoCall /\ nmOut = NoCall /\ monitor = NoMonitor

ExtractCall ==
    /\ ~Called(exOut)
    /\ exOut' = extract_text_from_file(exIn.file, exIn.libs)
    /\ UNCHANGED <<exIn, anIn, anOut, prIn, prOut, nmIn, nmOut, monitor>>
    /\ UNCHANGED pipelineVars

NextExtract == ExtractCall

SpecExtract == InitExtract /\ [][NextExtract]_vars

(***************************************************************************)
(* Properties of extract_text_from_file (checked under SpecExtract)        *)
(***************************************************************************)
NameIsPdf(name) == EndsWith(str_lower(name), ExtPdf)
NameIsWord(name) ==
    /\ ~NameIsPdf(name)
    /\ EndsWith(str_lower(name), ExtDocx) \/ EndsWith(str_lower(name), ExtDoc)
NameIsTxt(name) == ~NameIsPdf(name) /\ ~NameIsWord(name) /\ EndsWith(str_lower(name), ExtTxt)
LibraryThrows(file) ==
    file.reader.raised \/ \E k \in 1..Len(file.pages) : file.pages[k].raised
\* str(e) of the first exception the library raises on the file
LibraryMessage(file) ==
    IF file.reader.raised THEN file.reader.err
    ELSE file.pages[CHOOSE k \in 1..Len(file.pages) :
                        /\ file.pages[k].raised
                        /\ \A j \in 1..(k - 1) : ~file.pages[j].raised].err

\* C6: extract_text_from_file returns a str for every file name, content and
\* behaviour of the PDF and DOCX libraries, and no exception leaves it; when
\* the library is missing or throws, or the format is unsupported, the str is
\* the placeholder that names the failure.
C6_ExtractorReturnsText ==
    Called(exOut) =>
        LET file == exIn.file
            libs == exIn.libs
            out == exOut.val.s
        IN  /\ ~exOut.raised
            /\ exOut.val.t = "str"
            /\ (NameIsPdf(file.name) /\ ~libs.pdf) => out = PdfUnavailableText
            /\ (NameIsPdf(file.name) /\ libs.pdf /\ LibraryThrows(file)) =>
                    StartsWith(out, PdfErrorPrefix) /\ EndsWith(out, LibraryMessage(file))
            /\ (NameIsWord(file.name) /\ ~libs.docx) => out = DocxUnavailableText
            /\ (NameIsWord(file.name) /\ libs.docx /\ LibraryThrows(file)) =>
                    StartsWith(out, DocxErrorPrefix) /\ EndsWith(out, LibraryMessage(file))
            /\ (/\ ~NameIsPdf(file.name) /\ ~NameIsWord(file.name) /\ ~NameIsTxt(file.name)
                /\ ~StartsWith(file.content_type.s, StartsWithTextSlash)) =>
                    StartsWith(out, UnsupportedPrefix) /\ EndsWith(out, file.name)

\* a PDF whose second page throws has been extracted to the placeholder
C6_Witness ==
    /\ Called(exOut)
    /\ NameIsPdf(exIn.file.name) /\ exIn.libs.pdf
    /\ ~exIn.file.reader.raised
    /\ Len(exIn.file.pages) = 2 /\ ~exIn.file.pages[1].raised /\ exIn.file.pages[2].raised
    /\ exOut.val = PStr(PdfErrorPrefix \o PageError)

(***************************************************************************)
(* analyze_with_bedrock on its own: one call on any reply of               *)
(* AnalyzeReplies, for a text that process_resume_file can hand over (an   *)
(* extracted text of 50 characters or more, or the placeholder).           *)
(***************************************************************************)
\* a key the decoded object does not have
Absent == [t |-> "absent", i |-> 0, s |-> <<>>, l |-> <<>>]

\* data with data[key] = v, or without key
With(data, key, v) ==
    [k \in (IF v = Absent THEN DOMAIN data \ {key} ELSE DOMAIN data \cup {key}) |->
        IF k = key THEN v ELSE data[k]]

ScoreInputs ==
    { Absent, PNone, PInt(0 - 10), PInt(0), PInt(1), PInt(50), PInt(100), PInt(101),
      PInt(1000), PStr(<<"N","/","A">>), PStr(<<"u","n","k","n","o","w","n">>), PStr(<<>>), PStr(<<"8","5">>),
      PStr(<<" ","7"," ">>), PStr(<<"-","3">>), PStr(<<"h","i","g","h">>), PStr(<<"8","5",".","5">>), PFloat(8550),
      PBool(TRUE), PList(<<>>), PDict(1) }
DiversityInputs ==
    { Absent, PInt(0), PInt(30), PInt(250), PStr(<<"N","/","A">>), PStr(<<"4","0">>) }
SkillsInputs ==
    { Absent, PNone, PList(<<>>),
      PStrList(<< <<"P","Y","T","H","O","N">>, <<"a","w","s">>, <<"C","o","b","o","l">> >>),
      PStr(<<"P","y","t","h","o","n">>), PInt(7), PList(<<PInt(7)>>), PDict(2) }
BreakdownInputs == { Absent, PDict(1) }

\* the decoded objects: GoodData or the empty object, with these four keys varied
ObjectReply(base, os, sd, sk, sb) ==
    [kind |-> "object",
     data |-> With(With(With(With(base, "overall_score", os), "skill_diversity", sd),
                        "skills", sk), "skill_breakdown", sb)]

NoSkillText == <<"E","x","p","e","r","i","e","n","c","e","d"," ","s","t","o","r","e"," ","m","a","n","a","g","e","r",","," ","g","o","o","d"," ","w","i","t","h"," ","p","e","o","p","l","e"," ","a","n","d"," ","b","u","d","g","e","t","s",","," ","f","l","u","e","n","t"," ","F","r","e","n","c","h">>
AnalyzeNames == { <<"r","e","s","u","m","e",".","t","x","t">>, <<"J","o","h","n","_","S","m","i","t","h","_","R","e","s","u","m","e","_","2","0","2","3",".","p","d","f">> }
AnalyzeTexts(name) == { LongResumeText, NoSkillText, UnableToExtract(name) }

InitAnalyze ==
    /\ NoPipeline
    /\ exIn = NoCall /\ exOut = NoCall
    /\ anOut = NoCall
    /\ prIn = NoCall /\ prOut = NoCall
    /\ nmIn = NoCall /\ nmOut = NoCall /\ monitor = NoMonitor
    /\ \E name \in AnalyzeNames :
       \E text \in AnalyzeTexts(name) :
          \/ \E kind \in {"throws", "no_json", "malformed"} :
                anIn = [reply |-> [kind |-> kind, data |-> NoData],
                        text |-> text, name |-> name]
          \/ \E base \in {NoData, GoodData}, os \in ScoreInputs, sd \in DiversityInputs,
                sk \in SkillsInputs, sb \in BreakdownInputs :
                anIn = [reply |-> ObjectReply(base, os, sd, sk, sb),
                        text |-> text, name |-> name]

AnalyzeCall ==
    /\ ~Called(anOut)
    /\ anOut' = analyze_with_bedrock(anIn.reply, anIn.text, anIn.name)
    /\ UNCHANGED <<exIn, exOut, anIn, prIn, prOut, nmIn, nmOut, monitor>>
    /\ UNCHANGED pipelineVars

NextAnalyze == AnalyzeCall

SpecAnalyze == InitAnalyze /\ [][NextAnalyze]_vars

(***************************************************************************)
(* Properties of analyze_with_bedrock (checked under SpecAnalyze)          *)
(***************************************************************************)
\* what the decoded object gives for a key (Absent without the key)
Given(key) == Get(anIn.reply.data, key, Absent)

\* a value int() cannot take: null, a list, an object, a str without a digit
NotCoercible(v) ==
    \/ v.t \in {"null", "list", "dict"}
    \/ v.t = "str" /\ \A k \in 1..Len(v.s) : ~InSeq(v.s[k], DigitChars)

ScoreAsClaimed(given, out, default) ==
    /\ out \in 1..100
    /\ given.t = "int" => out = (IF given.i < 1 THEN 1 ELSE IF given.i > 100 THEN 100 ELSE given.i)
    /\ NotCoercible(given) => out = default

\* C9: in every Analysis of analyze_with_bedrock overall_score and
\* skill_diversity are integers in [1,100]; an integer the AI supplied is
\* clamped into [1,100] and a value that cannot be coerced to an integer
\* becomes the default, 50 for overall_score and 30 for skill_diversity.
C9_ScoresClampedOrDefault ==
    Called(anOut) =>
        /\ anOut.overall_score \in 1..100
        /\ anOut.skill_diversity \in 1..100
        /\ anIn.reply.kind = "object" =>
              /\ ScoreAsClaimed(Given("overall_score"), anOut.overall_score, 50)
              /\ ScoreAsClaimed(Given("skill_diversity"), anOut.skill_diversity, 30)

\* C10: in every Analysis skill_breakdown is categorize_skills of the final
\* skills list and has every fixed category, with 0 for a category no skill
\* matches, on the AI path and on the fallback path.
C10_BreakdownOfFinalSkills ==
    Called(anOut) =>
        /\ DOMAIN anOut.skill_breakdown = CategoryNames
        /\ anOut.skill_breakdown = categorize_skills(anOut.skills).val

(***************************************************************************)
(* Properties of the pipeline (checked under Spec)                         *)
(***************************************************************************)
Returned(r) == pc[r] \in {"return", "done"}
Analysed(r) == trace[r].reply # "none"
StorageFailed(r) == trace[r].cause = "storage"
AttachmentCreated(r) == attachment_id(r) \in DOMAIN attachments
Status(r) == attachments[attachment_id(r)].processingStatus
Completed(r) ==
    /\ result[r].status = "success"
    /\ AttachmentCreated(r) /\ Status(r) = "COMPLETED"

\* C1: a run in which a write to S3 or DynamoDB failed after the attachment
\* record was created ends with processingStatus FAILED, and handler does not
\* answer success.
C1_StorageFailureMarksFailed ==
    \A r \in DOMAIN pc :
        (pc[r] = "done" /\ StorageFailed(r) /\ AttachmentCreated(r)) =>
            /\ Status(r) = "FAILED"
            /\ response[r].statusCode # 200

\* C2: in every state, whatever write has failed, every record of the resume
\* information table carries a detailed_analysis_s3_key under which the
\* detailed analysis already is in the bucket.
C2_NoDanglingReference ==
    \A id \in DOMAIN resumeInfo :
        /\ resumeInfo[id].detailed_analysis_s3_key \in DOMAIN blob
        /\ blob[resumeInfo[id].detailed_analysis_s3_key].content_type = "application/json"

\* a run wrote its resume information record and failed afterwards
C2_Witness ==
    \E r \in DOMAIN pc :
        /\ resume_info_id(r) \in DOMAIN resumeInfo
        /\ Returned(r) /\ StorageFailed(r)

\* C3: a run that ended in failure has left neither its resume information
\* record nor its detailed analysis object in the stores.
C3_FailedRunLeavesNoAnalysis ==
    \A r \in DOMAIN pc :
        (Returned(r) /\ result[r].status = "error") =>
            /\ resume_info_id(r) \notin DOMAIN resumeInfo
            /\ detailed_analysis_s3_key(r) \notin DOMAIN blob

\* C4: whatever the inference call does (throws, no JSON, malformed JSON, an
\* object with missing, null or ill-typed fields), a run whose storage writes
\* all succeed reaches COMPLETED and returns success.
C4_InferenceNeverStopsRun ==
    \A r \in DOMAIN pc :
        (Returned(r) /\ Analysed(r) /\ ~StorageFailed(r)) => Completed(r)

\* C5: once the notification has been triggered, with or without success, a
\* run whose storage writes succeed ends COMPLETED with result success.
C5_NotificationFailureNotFatal ==
    \A r \in DOMAIN pc :
        (Returned(r) /\ trace[r].notify # "none" /\ ~StorageFailed(r)) => Completed(r)

\* a run whose notification trigger threw has ended COMPLETED
C5_Witness ==
    \E r \in DOMAIN pc :
        Returned(r) /\ trace[r].notify = "failed" /\ Completed(r)

\* the uploaded file is a PDF one of whose pages throws on extraction
PageThrows ==
    /\ NameIsPdf(LastComponent(scenario.key, "/")) /\ scenario.libs.pdf
    /\ ~scenario.object.reader.raised
    /\ \E k \in 1..Len(scenario.object.pages) : scenario.object.pages[k].raised

\* C7: for a PDF whose page extraction throws, a run whose storage writes
\* succeed stores a text holding the failure placeholder, reaches COMPLETED,
\* and its Analysis is the fallback one (extraction_confidence 0.3), whatever
\* the inference service does.
C7_BrokenPdfGivesFallback ==
    \A r \in DOMAIN pc :
        PageThrows =>
            /\ Analysed(r) => analysis[r].extraction_confidence = ConfidenceFallback
            /\ raw_text_s3_key(r) \in DOMAIN blob =>
                    Contains(blob[raw_text_s3_key(r)].body, PdfErrorPrefix)
            /\ (Returned(r) /\ Analysed(r) /\ ~StorageFailed(r)) => Completed(r)

HasSkill(a, skill) ==
    /\ a.skills.t = "list"
    /\ \E k \in 1..Len(a.skills.l) :
          a.skills.l[k].t = "str" /\ str_lower(a.skills.l[k].s) = str_lower(skill)

Unavailable(r) == trace[r].reply = "throws"

ListFields == {"strengths", "recommendations", "key_achievements", "education", "certifications"}

\* line 308 and line 312 of the prompt
ExperienceLevels == { <<"E","n","t","r","y">>, <<"J","u","n","i","o","r">>, <<"M","i","d","-","l","e","v","e","l">>, <<"S","e","n","i","o","r">>, <<"L","e","a","d">> }
FitAssessments == { <<"L","o","w">>, <<"M","e","d","i","u","m">>, <<"H","i","g","h">> }

OneItemList == PStrList(<< <<"L","e","d"," ","a"," ","t","e","a","m"," ","o","f"," ","f","i","v","e">> >>)
StrengthsInputs ==
    { Absent, PNone, PList(<<>>), OneItemList, PStr(<<"S","t","r","o","n","g"," ","e","n","g","i","n","e","e","r">>), PInt(3), PDict(1) }
RecommendationsInputs == { Absent, PNone, OneItemList, PStr(<<"n","o","n","e">>) }
AchievementsInputs == { Absent, PNone, OneItemList, PBool(FALSE) }
EducationInputs == { Absent, PNone, PStr(<<"B","S","c">>) }
CertificationsInputs == { Absent, PList(<<>>), PDict(1) }

NameInputs == { Absent, PNone, PStr(<<>>), PStr(<<"J","a","n","e"," ","R","o","e">>), PInt(7) }
YearsInputs ==
    { Absent, PNone, PInt(0 - 3), PInt(0), PInt(1), PInt(5), PInt(1000), PStr(<<"N","/","A">>),
      PStr(<<"-","2">>), PStr(<<"0">>), PStr(<<"7">>), PStr(<<"5","+"," ","y","e","a","r","s">>), PBool(TRUE), PBool(FALSE),
      PFloat(350) }
LevelInputs == { Absent, PNone, PStr(<<"S","e","n","i","o","r">>), PStr(<<"L","e","a","d">>), PStr(<<"G","u","r","u">>), PStr(<<>>), PInt(3) }
FitInputs == { Absent, PNone, PStr(<<"H","i","g","h">>), PStr(<<"L","o","w">>), PStr(<<"P","e","r","f","e","c","t">>), PList(<<>>) }

ListsReply(base, st, re, ac, ed, ce) ==
    [kind |-> "object",
     data |-> With(With(With(With(With(base, "strengths", st), "recommendations", re),
                             "key_achievements", ac), "education", ed), "certifications", ce)]

ScalarsReply(base, na, ye, le, fi) ==
    [kind |-> "object",
     data |-> With(With(With(With(base, "candidate_name", na), "experience_years", ye),
                        "experience_level", le), "fit_assessment", fi)]

InitNormalize ==
    /\ NoPipeline
    /\ exIn = NoCall /\ exOut = NoCall
    /\ anOut = NoCall
    /\ prIn = NoCall /\ prOut = NoCall
    /\ nmIn = NoCall /\ nmOut = NoCall /\ monitor = NoMonitor
    /\ \E name \in AnalyzeNames :
          \/ \E kind \in {"throws", "no_json", "malformed"} :
                anIn = [reply |-> [kind |-> kind, data |-> NoData],
                        text |-> LongResumeText, name |-> name]
          \/ \E base \in {NoData, GoodData}, st \in StrengthsInputs,
                re \in RecommendationsInputs, ac \in AchievementsInputs,
                ed \in EducationInputs, ce \in CertificationsInputs :
                anIn = [reply |-> ListsReply(base, st, re, ac, ed, ce),
                        text |-> LongResumeText, name |-> name]
          \/ \E base \in {NoData, GoodData}, na \in NameInputs, ye \in YearsInputs,
                le \in LevelInputs, fi \in FitInputs :
                anIn = [reply |-> ScalarsReply(base, na, ye, le, fi),
                        text |-> LongResumeText, name |-> name]

SpecNormalize == InitNormalize /\ [][NextAnalyze]_vars

\* the AI supplied an object
FromObject == anIn.reply.kind = "object"

ListDefault(field) ==
    CASE field = "strengths" -> DefaultStrengths
      [] field = "recommendations" -> DefaultRecommendations
      [] OTHER -> PList(<<>>)

\* C11: in every Analysis strengths, recommendations, key_achievements,
\* education and certifications are lists; a list the AI supplied is passed
\* through, and a value that is missing or not a list is replaced by the
\* empty list, or by ["Professional Background"] / ["Continue professional
\* development"] for strengths / recommendations.
C11_ListFieldsAreLists ==
    Called(anOut) =>
        \A field \in ListFields :
            /\ anOut[field].t = "list"
            /\ (FromObject /\ Given(field).t = "list") => anOut[field] = Given(field)
            /\ (FromObject /\ Given(field).t # "list") => anOut[field] = ListDefault(field)

\* a str of at least one character
NonEmptyStr(v) == v.t = "str" /\ v.s # <<>>

\* C12: in every Analysis candidate_name is a non-empty string: the AI's
\* value when that is a non-empty string, and otherwise the name derived
\* from the file name, which is "Unknown Candidate" when none can be derived.
C12_CandidateNameNonEmpty ==
    Called(anOut) =>
        /\ NonEmptyStr(anOut.candidate_name)
        /\ IF FromObject /\ NonEmptyStr(Given("candidate_name"))
           THEN anOut.candidate_name = Given("candidate_name")
           ELSE anOut.candidate_name = PStr(extract_name_from_filename(anIn.name))

\* C13: in every Analysis experience_years is an integer of at least 1; an AI
\* value that cannot be coerced to an integer, or that is negative or 0, is
\* replaced by 1.
C13_ExperienceYearsAtLeastOne ==
    Called(anOut) =>
        /\ anOut.experience_years.t = "int"
        /\ anOut.experience_years.i >= 1
        /\ (FromObject /\ (\/ Given("experience_years") = Absent
                           \/ NotCoercible(Given("experience_years"))
                           \/ /\ Given("experience_years").t = "int"
                              /\ Given("experience_years").i <= 0))
              => anOut.experience_years = PInt(DefaultExperienceYears)

\* C14: in every Analysis experience_level is one of the fixed levels: a
\* level the AI supplied is passed through and any other value (missing,
\* null, unknown string, not a string) is replaced by "Junior".
C14_ExperienceLevelInEnumeration ==
    Called(anOut) =>
        /\ anOut.experience_level.t = "str"
        /\ anOut.experience_level.s \in ExperienceLevels
        /\ FromObject =>
              IF Given("experience_level").t = "str"
                 /\ Given("experience_level").s \in ExperienceLevels
              THEN anOut.experience_level = Given("experience_level")
              ELSE anOut.experience_level = PStr(<<"J","u","n","i","o","r">>)

\* C15: in every Analysis fit_assessment is one of Low, Medium and High: a
\* member the AI supplied is passed through and any other value is replaced
\* by "Medium".
C15_FitAssessmentInEnumeration ==
    Called(anOut) =>
        /\ anOut.fit_assessment.t = "str"
        /\ anOut.fit_assessment.s \in FitAssessments
        /\ FromObject =>
              IF Given("fit_assessment").t = "str"
                 /\ Given("fit_assessment").s \in FitAssessments
              THEN anOut.fit_assessment = Given("fit_assessment")
              ELSE anOut.fit_assessment = PStr(<<"M","e","d","i","u","m">>)

(***************************************************************************)
(* Properties of the two projections (checked under Spec)                  *)
(***************************************************************************)
\* the invocation that wrote the resume information record id
RunOf(id) == id[1]

\* the Analysis of invocation r came from get_fallback_analysis: the call
\* threw, the reply had no JSON span, the JSON was malformed, or
\* process_real_analysis_data raised on the decoded object
FullFallback(r) ==
    \/ trace[r].reply \in {"throws", "no_json", "malformed"}
    \/ trace[r].reply = "object" /\ trace[r].rejected

\* C16: the extraction_confidence of a persisted record is 0.3 exactly when
\* the Analysis came from the full fallback path and 0.85 exactly when the
\* object the AI returned was used, so the value alone tells a degraded run
\* from an AI-backed one.
C16_ConfidenceTellsThePath ==
    \A id \in DOMAIN resumeInfo :
        /\ resumeInfo[id].extraction_confidence \in {ConfidenceFallback, ConfidenceAI}
        /\ resumeInfo[id].extraction_confidence = ConfidenceFallback <=> FullFallback(RunOf(id))
        /\ resumeInfo[id].extraction_confidence = ConfidenceAI <=>
              (trace[RunOf(id)].reply = "object" /\ ~trace[RunOf(id)].rejected)

C16_Witness ==
    \E id \in DOMAIN resumeInfo :
        /\ trace[RunOf(id)].data = RejectedData
        /\ resumeInfo[id].extraction_confidence = ConfidenceFallback

\* C17: the detailed analysis written to the bucket carries the untruncated
\* values of the Analysis: the complete skills list and the full summary,
\* strengths and recommendations.
C17_DetailedIsUntruncated ==
    \A r \in DOMAIN pc :
        detailed_analysis_s3_key(r) \in DOMAIN blob =>
            LET D == blob[detailed_analysis_s3_key(r)].body
            IN  /\ D.all_skills = analysis[r].skills
                /\ D.full_summary = analysis[r].detailed_summary
                /\ D.complete_strengths = analysis[r].strengths
                /\ D.detailed_recommendations = analysis[r].recommendations

\* C18: the detailed_analysis_s3_key of every persisted record leads to a
\* detailed analysis D with summary = D.full_summary[:1000], key_skills =
\* D.all_skills[:10], top_strengths = D.complete_strengths[:5] and
\* top_recommendations = D.detailed_recommendations[:3].
C18_EssentialIsTruncatedDetailed ==
    \A id \in DOMAIN resumeInfo :
        /\ resumeInfo[id].detailed_analysis_s3_key \in DOMAIN blob
        /\ LET E == resumeInfo[id]
               D == blob[resumeInfo[id].detailed_analysis_s3_key].body
           IN  /\ E.summary = PySlice(D.full_summary, SummaryCap)
               /\ E.key_skills = PySlice(D.all_skills, TopSkills)
               /\ E.top_strengths = PySlice(D.complete_strengths, TopStrengths)
               /\ E.top_recommendations = PySlice(D.detailed_recommendations, TopRecommendations)

\* C19: every resume information record written has a summary of at most
\* 1000 characters, at most 10 key_skills, at most 5 top_strengths and at
\* most 3 top_recommendations, whatever the lengths in the Analysis.
C19_EssentialWithinCaps ==
    \A id \in DOMAIN resumeInfo :
        /\ PyLen(resumeInfo[id].summary) <= SummaryCap
        /\ PyLen(resumeInfo[id].key_skills) <= TopSkills
        /\ PyLen(resumeInfo[id].top_strengths) <= TopStrengths
        /\ PyLen(resumeInfo[id].top_recommendations) <= TopRecommendations

C19_Witness ==
    \E id \in DOMAIN resumeInfo :
        /\ PyLen(analysis[RunOf(id)].summary) > SummaryCap
        /\ PyLen(analysis[RunOf(id)].skills) > TopSkills
        /\ PyLen(analysis[RunOf(id)].strengths) > TopStrengths
        /\ PyLen(analysis[RunOf(id)].recommendations) > TopRecommendations
        /\ PyLen(resumeInfo[id].summary) = SummaryCap
        /\ PyLen(resumeInfo[id].top_strengths) = TopStrengths
        /\ PyLen(resumeInfo[id].top_recommendations) = TopRecommendations

(***************************************************************************)
(* The two records of lines 160-205 on their own: one Analysis, with       *)
(* strings of any length, and the records made of it.                      *)
(***************************************************************************)
\* the DynamoDB limit named at line 156: 400 KB
StoreCeiling == 400 * 1024

\* a string of n characters
Text(n) == [k \in 1..n |-> "x"]

ProjectLengths == {0, 10, SummaryCap + 1, StoreCeiling}

ProjectAnalyses ==
    { analyze_with_bedrock(reply, ManySkillsText, <<"c","v","-","A","n","n","L","e","e",".","d","o","c","x">>) :
        reply \in { [kind |-> "throws", data |-> NoData],
                    [kind |-> "object", data |-> GoodData],
                    [kind |-> "object", data |-> LongData] } }

\* a with the given candidate_name and summary, and with the given string as
\* its first skill
ProjectInput(a, name, summary, skill) ==
    [a EXCEPT !.candidate_name = PStr(name),
              !.summary = PStr(summary),
              !.detailed_summary = PStr(summary),
              !.skills = PList(<<PStr(skill)>> \o Tail(a.skills.l)),
              !.key_skills = PList(<<PStr(skill)>> \o Tail(a.key_skills.l))]

InitProject ==
    /\ NoPipeline
    /\ exIn = NoCall /\ exOut = NoCall
    /\ anIn = NoCall /\ anOut = NoCall
    /\ prOut = NoCall
    /\ nmIn = NoCall /\ nmOut = NoCall /\ monitor = NoMonitor
    /\ \E a \in ProjectAnalyses, n \in ProjectLengths, m \in ProjectLengths,
          k \in ProjectLengths :
          prIn = ProjectInput(a, Text(n), Text(m), Text(k))

ProjectCall ==
    /\ ~Called(prOut)
    /\ prOut' = [detailed |-> detailed_analysis(prIn),
                 essential |-> resume_info(1, prIn)]
    /\ UNCHANGED <<exIn, exOut, anIn, anOut, prIn, nmIn, nmOut, monitor>>
    /\ UNCHANGED pipelineVars

NextProject == ProjectCall

SpecProject == InitProject /\ [][NextProject]_vars

\* the number of characters in a value: of a str, or of the strs of a list
RECURSIVE CharCount(_)
CharCount(v) ==
    CASE v.t = "str" -> Len(v.s)
      [] v.t = "list" /\ v.l # <<>> -> CharCount(Head(v.l)) + CharCount(PList(Tail(v.l)))
      [] OTHER -> 0

\* the characters of the record's strings: no serialization of it is smaller
EssentialChars(item) ==
    CharCount(item.summary) + CharCount(item.candidate_name)
    + CharCount(item.experience_level) + CharCount(item.fit_assessment)
    + CharCount(item.key_skills) + CharCount(item.top_strengths)
    + CharCount(item.top_recommendations)

Reprocessings == 2

ReprocessReplies ==
    { [kind |-> "throws", data |-> NoData], [kind |-> "object", data |-> GoodData] }

ReprocessScenarios ==
    { [key |-> <<"m","s","g","-","1","/","J","a","n","e","D","o","e",".","t","x","t">>, object |-> TxtObject(LongResumeText), libs |-> AllLibs,
       replies |-> ReprocessReplies] }

InitReprocess ==
    /\ scenario \in ReprocessScenarios
    /\ pc = [r \in 1..Reprocessings |-> "start"]
    /\ filename = [r \in 1..Reprocessings |-> <<>>]
    /\ rawText = [r \in 1..Reprocessings |-> <<>>]
    /\ analysis = [r \in 1..Reprocessings |-> NoAnalysis]
    /\ result = [r \in 1..Reprocessings |-> NoResult]
    /\ response = [r \in 1..Reprocessings |-> [statusCode |-> 0, body |-> ""]]
    /\ trace = [r \in 1..Reprocessings |-> NoTrace]
    /\ attachments = <<>>
    /\ parsedResumes = <<>>
    /\ resumeInfo = <<>>
    /\ blob = <<>>
    /\ notifications = <<>>
    /\ exIn = NoCall /\ exOut = NoCall
    /\ anIn = NoCall /\ anOut = NoCall
    /\ prIn = NoCall /\ prOut = NoCall
    /\ nmIn = NoCall /\ nmOut = NoCall /\ monitor = NoMonitor

SpecReprocess == InitReprocess /\ [][Next]_vars

\* the invocations that returned success
Succeeded == {r \in DOMAIN pc : result[r].status = "success"}
DetailedKeys == {k \in DOMAIN blob : k.prefix = "analysis/"}
TextKeys == {k \in DOMAIN blob : k.prefix = "parsed-resumes/"}

\* no object of the bucket and no record of the two tables is removed or changed
WrittenOnce ==
    /\ \A k \in DOMAIN blob : k \in DOMAIN blob' /\ blob'[k] = blob[k]
    /\ \A id \in DOMAIN resumeInfo : id \in DOMAIN resumeInfo' /\ resumeInfo'[id] = resumeInfo[id]
    /\ \A id \in DOMAIN parsedResumes :
          id \in DOMAIN parsedResumes' /\ parsedResumes'[id] = parsedResumes[id]

\* C21: processing the same document again never changes or overwrites a
\* resume information record, a detailed analysis object or an extracted-text
\* object of an earlier run: n successful runs leave n records and n detailed
\* objects under distinct keys, each unchanged since it was written.
C21_RerunsCreateNewRecords ==
    /\ [](/\ Cardinality(DOMAIN resumeInfo) >= Cardinality(Succeeded)
          /\ Cardinality(DetailedKeys) >= Cardinality(Succeeded)
          /\ Cardinality(TextKeys) >= Cardinality(Succeeded)
          /\ (Succeeded = DOMAIN pc) =>
                /\ Cardinality(DOMAIN resumeInfo) = Cardinality(DOMAIN pc)
                /\ Cardinality(DetailedKeys) = Cardinality(DOMAIN pc))
    /\ [][WrittenOnce]_vars

C21_Witness ==
    /\ Cardinality(Succeeded) = 2
    /\ Cardinality(DOMAIN resumeInfo) = 2
    /\ Cardinality(DetailedKeys) = 2
    /\ \E r1, r2 \in Succeeded : trace[r1].reply = "throws" /\ trace[r2].reply = "object"

\* C22: when two invocations process the same document at once, every
\* resume information record refers to the detailed analysis, the extracted
\* text and the parsed-resume record its own invocation wrote, every
\* parsed-resume record to the attachment record of its own invocation, and
\* each of these holds what that invocation computed.
C22_ConcurrentRunsSelfConsistent ==
    /\ \A id \in DOMAIN resumeInfo :
          LET E == resumeInfo[id]
              r == RunOf(id)
          IN  /\ E.detailed_analysis_s3_key \in DOMAIN blob
              /\ E.detailed_analysis_s3_key.id[1] = r
              /\ blob[E.detailed_analysis_s3_key].body = detailed_analysis(analysis[r])
              /\ E.raw_text_s3_key \in DOMAIN blob
              /\ E.raw_text_s3_key.id[1] = r
              /\ blob[E.raw_text_s3_key].body = rawText[r]
              /\ E.parsed_resume_id \in DOMAIN parsedResumes
              /\ E.parsed_resume_id[1] = r
              /\ E.extraction_confidence = analysis[r].extraction_confidence
    /\ \A id \in DOMAIN parsedResumes :
          /\ parsedResumes[id].attachment_id \in DOMAIN attachments
          /\ parsedResumes[id].attachment_id[1] = RunOf(id)
          /\ parsedResumes[id].raw_text_s3_key \in DOMAIN blob
          /\ parsedResumes[id].raw_text_s3_key.id[1] = RunOf(id)

\* two invocations are between their first and their last write at once, and
\* both records are written in the end
C22_Witness ==
    /\ Cardinality(DOMAIN resumeInfo) = 2
    /\ \E r1, r2 \in DOMAIN pc :
          /\ r1 # r2
          /\ trace[r1].reply # trace[r2].reply
          /\ pc[r1] = "invoke_notifier" /\ pc[r2] = "invoke_notifier"

(***************************************************************************)
(* extract_name_from_filename on its own: one call on a file name put      *)
(* together from a prefix, two words, a separator, a suffix and an         *)
(* extension.                                                               *)
(***************************************************************************)
NamePrefixes == { <<>>, <<"R","e","s","u","m","e","_">>, <<"C","V","_">>, <<"r","e","s","u","m","e","-">>, <<"c","v","-">>, <<"r","e","s","u","m","e","_">> }
NameFirsts == { <<>>, <<"J","o","h","n">>, <<"j","a","n","e">>, <<"A","n","n","L","e","e">>, <<"J">>, <<"r","e","s","u","m","e">> }
NameSeparators == { <<>>, <<"_">>, <<"-">>, <<" ">>, <<".">> }
NameLasts == { <<>>, <<"S","m","i","t","h">>, <<"d","o","e">>, <<"2","0","2","3">> }
NameSuffixes == { <<>>, <<"_","R","e","s","u","m","e","_","2","0","2","3">>, <<"_","C","V">> }
NameExtensions == { <<>>, <<".","p","d","f">>, <<".","d","o","c","x">>, <<".","d","o","c">>, <<".","t","x","t">>, <<".","P","D","F">> }

InitName ==
    /\ NoPipeline
    /\ exIn = NoCall /\ exOut = NoCall
    /\ anIn = NoCall /\ anOut = NoCall
    /\ prIn = NoCall /\ prOut = NoCall
    /\ nmOut = NoCall /\ monitor = NoMonitor
    /\ \E prefix \in NamePrefixes, first \in NameFirsts, sep \in NameSeparators,
          last \in NameLasts, suffix \in NameSuffixes, ext \in NameExtensions :
          nmIn = [name |-> prefix \o first \o sep \o last \o suffix \o ext,
                  prefix |-> prefix, first |-> first, sep |-> sep, last |-> last,
                  suffix |-> suffix, ext |-> ext]

NameCall ==
    /\ ~Called(nmOut)
    /\ nmOut' = PStr(extract_name_from_filename(nmIn.name))
    /\ UNCHANGED <<exIn, exOut, anIn, anOut, prIn, prOut, nmIn, monitor>>
    /\ UNCHANGED pipelineVars

NextName == NameCall

SpecName == InitName /\ [][NextName]_vars

\* s is a cleaned name: no digit, no '_' or '-', no surrounding white space,
\* title-cased
CleanedName(s) ==
    /\ \A k \in 1..Len(s) : ~InSeq(s[k], DigitChars) /\ s[k] \notin {"_", "-"}
    /\ Strip(s) = s
    /\ \A k \in 1..Len(s) :
          IsAlpha(s[k]) =>
              IF k > 1 /\ IsAlpha(s[k - 1]) THEN InSeq(s[k], LowerAlpha)
              ELSE InSeq(s[k], UpperAlpha)

\* the file name is two plain words with a separator and a known extension
TwoPlainWords ==
    /\ nmIn.prefix = <<>> /\ nmIn.suffix = <<>>
    /\ nmIn.first \in { <<"J","o","h","n">>, <<"j","a","n","e">> } /\ nmIn.last \in { <<"S","m","i","t","h">>, <<"d","o","e">> }
    /\ nmIn.sep \in { <<"_">>, <<"-">>, <<" ">> }
    /\ nmIn.ext \in { <<".","p","d","f">>, <<".","d","o","c","x">>, <<".","d","o","c">>, <<".","t","x","t">> }

\* the file name is one plain word with a known extension
OnePlainWord ==
    /\ nmIn.prefix = <<>> /\ nmIn.suffix = <<>> /\ nmIn.sep = <<>>
    /\ \/ nmIn.first \in { <<"J","o","h","n">>, <<"j","a","n","e">>, <<"J">>, <<"r","e","s","u","m","e">> } /\ nmIn.last = <<>>
       \/ nmIn.first = <<>> /\ nmIn.last \in { <<"S","m","i","t","h">>, <<"d","o","e">> }
    /\ nmIn.ext \in { <<".","p","d","f">>, <<".","d","o","c","x">>, <<".","d","o","c">>, <<".","t","x","t">> }

TerminalStatuses == {"COMPLETED", "FAILED"}

\* one step of the attachments table keeps to the lifecycle
LifecycleStep ==
    /\ \A id \in DOMAIN attachments :
          /\ id \in DOMAIN attachments'
          /\ \/ attachments'[id].processingStatus = attachments[id].processingStatus
             \/ /\ attachments[id].processingStatus = "PROCESSING"
                /\ attachments'[id].processingStatus \in TerminalStatuses
    /\ \A id \in DOMAIN attachments' \ DOMAIN attachments :
          attachments'[id].processingStatus = "PROCESSING"

\* C24: the attachment record is created with processingStatus PROCESSING,
\* its status only goes from PROCESSING to COMPLETED or to FAILED and never
\* changes afterwards, and no step of the pipeline deletes the record.
C24_StatusLifecycle == [][LifecycleStep]_vars

C24_Witness ==
    \E r \in DOMAIN pc :
        /\ pc[r] = "done"
        /\ AttachmentCreated(r) /\ Status(r) = "COMPLETED"

\* C25: an attachment whose processingStatus is COMPLETED has both tiers
\* written by its own run: the detailed analysis object in the bucket and the
\* resume information record that references it.
C25_CompletedHasBothTiers ==
    \A r \in DOMAIN pc :
        (AttachmentCreated(r) /\ Status(r) = "COMPLETED") =>
            /\ detailed_analysis_s3_key(r) \in DOMAIN blob
            /\ blob[detailed_analysis_s3_key(r)].body = detailed_analysis(analysis[r])
            /\ resume_info_id(r) \in DOMAIN resumeInfo
            /\ resumeInfo[resume_info_id(r)].detailed_analysis_s3_key =
                   detailed_analysis_s3_key(r)
            /\ trace[r].cause = "none"

C25_Witness ==
    \E r \in DOMAIN pc :
        /\ Completed(r)
        /\ detailed_analysis_s3_key(r) \in DOMAIN blob
        /\ resume_info_id(r) \in DOMAIN resumeInfo

\* what extract_text_from_file gives for the scenario's object
ExtractedText ==
    extract_text_from_file(
        [name |-> LastComponent(scenario.key, "/"),
         content_type |-> scenario.object.content_type,
         bytes |-> scenario.object.bytes, reader |-> scenario.object.reader,
         pages |-> scenario.object.pages], scenario.libs).val.s

\* run r is past lines 101-114
HasText(r) ==
    /\ pc[r] \notin {"start", "get_object"}
    /\ result[r].status # "skipped"
    /\ trace[r].failed_at # "get_object"

\* the text of run r is the extracted text or, below the threshold, the
\* placeholder; what is stored is that text
TextAfterThreshold(r) ==
    /\ pc[r] = "put_attachment" =>
          LET raw_text == ExtractedText
          IN  IF Len(Strip(raw_text)) < 50
              THEN rawText[r] = UnableToExtract(LastComponent(scenario.key, "/"))
              ELSE rawText[r] = raw_text
    /\ HasText(r) =>
          /\ raw_text_s3_key(r) \in DOMAIN blob =>
                blob[raw_text_s3_key(r)].body = rawText[r]
          /\ parsed_resume_id(r) \in DOMAIN parsedResumes =>
                parsedResumes[parsed_resume_id(r)].text_length = Len(rawText[r])

\* the text of a run does not change once lines 108-114 have run
TextKept == \A r \in DOMAIN pc : HasText(r) => rawText'[r] = rawText[r]

\* C26: the text handed to analysis and stored is never marginal: extracted
\* text that is shorter than 50 characters after stripping is replaced by the
\* "Unable to extract meaningful text" placeholder before anything is stored
\* or analysed, and text of 50 or more characters is passed on unchanged.
C26_NoMarginalText ==
    /\ [](\A r \in DOMAIN pc : TextAfterThreshold(r))
    /\ [][TextKept]_vars

C26_Witness ==
    \E r \in DOMAIN pc :
        /\ Analysed(r)
        /\ ExtractedText # <<>> /\ Len(Strip(ExtractedText)) < 50
        /\ raw_text_s3_key(r) \in DOMAIN blob
        /\ blob[raw_text_s3_key(r)].body = UnableToExtract(filename[r])

\* the last component of the key ends in none of the four extensions
NotAResumeKey ==
    LET name == LastComponent(scenario.key, "/")
    IN  ~NameIsPdf(name) /\ ~NameIsWord(name) /\ ~NameIsTxt(name)

\* C28: for a key whose file name does not end, whatever the case, in .pdf,
\* .docx, .doc or .txt, process_resume_file returns a skipped result and
\* changes nothing: no download, no record, no object, no inference call and
\* no notification.
C28_NonResumeSkipped ==
    \A r \in DOMAIN pc :
        (NotAResumeKey /\ pc[r] # "start") =>
            /\ Returned(r)
            /\ result[r] = [status |-> "skipped", reason |-> "not a resume file"]
            /\ rawText[r] = <<>> /\ analysis[r] = NoAnalysis /\ trace[r] = NoTrace
            /\ attachment_id(r) \notin DOMAIN attachments
            /\ parsed_resume_id(r) \notin DOMAIN parsedResumes
            /\ resume_info_id(r) \notin DOMAIN resumeInfo
            /\ raw_text_s3_key(r) \notin DOMAIN blob
            /\ detailed_analysis_s3_key(r) \notin DOMAIN blob
            /\ \A k \in 1..Len(notifications) :
                  notifications[k].resume_info_id # resume_info_id(r)

C28_Witness ==
    \E r \in DOMAIN pc :
        /\ scenario.key = <<"a","r","c","h","i","v","e","/","r","e","s","u","m","e",".","p","d","f",".","z","i","p">>
        /\ pc[r] = "done"
        /\ result[r].status = "skipped"

\* every notification carries the id of a resume information record, and no
\* id is carried twice
NotificationsKnown ==
    /\ \A k \in 1..Len(notifications) :
          notifications[k].resume_info_id \in DOMAIN resumeInfo
    /\ \A j, k \in 1..Len(notifications) :
          j # k => notifications[j].resume_info_id # notifications[k].resume_info_id
    /\ \A r \in DOMAIN pc :
          (AttachmentCreated(r) /\ Status(r) = "COMPLETED") => trace[r].notify # "none"

\* a step that triggers the notifier triggers it once, for a record that is
\* written, of a run whose attachment is still PROCESSING
NotifyStep ==
    notifications' # notifications =>
        /\ Len(notifications') = Len(notifications) + 1
        /\ SubSeq(notifications', 1, Len(notifications)) = notifications
        /\ LET id == notifications'[Len(notifications')].resume_info_id
           IN  /\ id \in DOMAIN resumeInfo
               /\ Status(RunOf(id)) = "PROCESSING"
               /\ trace[RunOf(id)].notify = "none"

\* C29: within a run the notification trigger is issued at most once, only
\* after the resume information record whose id it carries has been written,
\* and before the attachment's status is set to COMPLETED.
C29_NotifyOnceAfterRecord == []NotificationsKnown /\ [][NotifyStep]_vars

C29_Witness ==
    \E r \in DOMAIN pc :
        /\ Completed(r)
        /\ trace[r].notify = "sent"
        /\ \E k \in 1..Len(notifications) :
              notifications[k].resume_info_id = resume_info_id(r)

\* C27: on an object reply whose skills value is absent or an empty list, the
\* Analysis's skills are the vocabulary terms that occur in the text (without
\* regard to case, in vocabulary order, at most 15); a non-empty skills list
\* of the AI is used unchanged.
C27_SkillsFromTextOrAI ==
    (Called(anOut) /\ anIn.reply.kind = "object") =>
        /\ Given("skills") \in {Absent, PList(<<>>)} =>
              anOut.skills = PStrList(extract_skills_from_text(anIn.text))
        /\ (Given("skills").t = "list" /\ Given("skills").l # <<>>) =>
              anOut.skills = Given("skills")

(***************************************************************************)
(* triggerS3Monitor (trigger-s3-monitor/index.py) with the processor it    *)
(* invokes: the objects of the bucket, the invocations of the processor    *)
(* that are under way, and the attachments table.                          *)
(***************************************************************************)
MaxMonitorRuns == 2
MaxObjects == 2

\* keys as webhook-handler writes them (line 33: <message_id>/<Name>) and a
\* key uploaded without a prefix
MonitorKeys ==
    { <<"r","e","s","u","m","e",".","p","d","f">>, <<"m","s","g","-","1","/","J","a","n","e","D","o","e",".","p","d","f">>, <<"m","s","g","-","2","/","s","c","a","n",".","P","D","F">>, <<"m","s","g","-","3","/","p","h","o","t","o",".","p","n","g">> }

InitMonitor ==
    /\ NoPipeline
    /\ exIn = NoCall /\ exOut = NoCall
    /\ anIn = NoCall /\ anOut = NoCall
    /\ prIn = NoCall /\ prOut = NoCall
    /\ nmIn = NoCall /\ nmOut = NoCall
    /\ \E bucket \in {b \in SUBSET MonitorKeys : Cardinality(b) \in 1..MaxObjects} :
          monitor = [bucket |-> bucket,
                     events |-> bucket,
                     pending |-> [key \in MonitorKeys |-> 0],
                     invocations |-> 0,
                     runs |-> 0,
                     processed |-> {},
                     retriggered |-> {}]

\* s3-processor handler, lines 75-82: the S3 event of an upload reaches the
\* processor
ObjectCreated(key) ==
    /\ key \in monitor.events
    /\ monitor' = [monitor EXCEPT !.events = @ \ {key}, !.pending[key] = @ + 1]
    /\ UNCHANGED <<exIn, exOut, anIn, anOut, prIn, prOut, nmIn, nmOut>>
    /\ UNCHANGED pipelineVars

\* lines 32-46: the filename of every attachment record
existing_files == {attachments[id].filename : id \in DOMAIN attachments}

\* lines 51-74: the keys that end in .pdf, whatever the case
s3_files == {key \in monitor.bucket : EndsWith(str_lower(key), ExtPdf)}

\* lines 81-87
new_files == {s3_file \in s3_files : s3_file \notin existing_files}

\* trigger-s3-monitor handler, lines 25-150: the scan or the listing raises
\* and nothing is invoked, or the processor is invoked for every new file
\* whose lambda_client.invoke does not raise
MonitorRun ==
    /\ monitor.runs < MaxMonitorRuns
    /\ \/ \E invoked \in SUBSET new_files :
             monitor' = [monitor EXCEPT
                 !.runs = @ + 1,
                 !.pending = [key \in MonitorKeys |->
                                 IF key \in invoked THEN @[key] + 1 ELSE @[key]],
                 !.retriggered = @ \cup (invoked \cap monitor.processed)]
       \/ monitor' = [monitor EXCEPT !.runs = @ + 1]
    /\ UNCHANGED <<exIn, exOut, anIn, anOut, prIn, prOut, nmIn, nmOut>>
    /\ UNCHANGED pipelineVars

\* process_resume_file, lines 94-127, for an invocation that is under way:
\* the file is skipped, or get_object or put_item raises, or the attachment
\* record is written
ProcessorRun(key) ==
    /\ monitor.pending[key] > 0
    /\ LET name == LastComponent(key, "/")
           id == uuid4(monitor.invocations + 1, 1)
       IN  \/ /\ IsResumeFile(name)
              /\ attachments' = (id :> [id |-> id, filename |-> name,
                                        processingStatus |-> "PROCESSING"]) @@ attachments
              /\ monitor' = [monitor EXCEPT !.pending[key] = @ - 1,
                                            !.invocations = @ + 1,
                                            !.processed = @ \cup {key}]
           \/ /\ monitor' = [monitor EXCEPT !.pending[key] = @ - 1,
                                            !.invocations = @ + 1]
              /\ UNCHANGED attachments
    /\ UNCHANGED <<exIn, exOut, anIn, anOut, prIn, prOut, nmIn, nmOut>>
    /\ UNCHANGED <<scenario, pc, filename, rawText, analysis, result, response,
                   trace, parsedResumes, resumeInfo, blob, notifications>>

NextMonitor ==
    \/ \E key \in MonitorKeys : ObjectCreated(key)
    \/ MonitorRun
    \/ \E key \in MonitorKeys : ProcessorRun(key)

SpecMonitor == InitMonitor /\ [][NextMonitor]_vars

\* C30: once the processor has created the attachment record of a key, no
\* later run of triggerS3Monitor triggers processing for that key again,
\* keys written under a <message_id>/ prefix included.
C30_ProcessedKeyNotRetriggered ==
    "retriggered" \in DOMAIN monitor => monitor.retriggered = {}

====
